---- MODULE Spec2Model ----
(***************************************************************************)
(* Model of the authentication / session core of cig-exchange-libs:       *)
(* the JWT session registry kept in redis (GenerateJWTString,              *)
(* JwtAuthenticationHandler, ChangeOrganisationHandler), the e-mail OTP    *)
(* round trip (SendCodeHandler, VerifyCodeHandler) and the membership      *)
(* resolver run on sign-in (verifyOrganisationUserAndReturnHome).          *)
(*                                                                         *)
(* Time is counted in seconds (the unit of the JWT iat / exp claims).      *)
(* A handler that runs as one action reads the clock once.                 *)
(***************************************************************************)
EXTENDS Integers, Sequences, FiniteSets, TLC

\* ------------------------------------------------------------------ bounds
\* the clock advances at most MaxTicks times in a behaviour
MaxTicks == 1

\* ------------------------------------------------------------ program data
\* Expiration time is one month (minutes)
tokenExpirationTimeInMin == 60 * 24 * 31

\* time.Minute * tokenExpirationTimeInMin, in seconds
TokenTTL == tokenExpirationTimeInMin * 60

\* expiration := 5 * time.Minute, in seconds
CodeTTL == 5 * 60

\* os.Getenv("TOKEN_PASSWORD")
TOKEN_PASSWORD == "secret"

KeySignUp == "_signup_key"
KeyWebAuthnRegister == "_web_authn_register"
KeyWebAuthnLogin == "_web_authn_login"

UserStatusUnverified == "unverified"
UserStatusVerified == "active"
UserRoleAdmin == "admin"
UserRoleUser == "regular-p2p-user"

OrganisationUserStatusInvited == "invited"
OrganisationUserStatusUnverified == "unverified"
OrganisationUserStatusActive == "active"
OrganisationRoleAdmin == "admin"
OrganisationRoleUser == "user"

JWTResponseStatusFinished == "finished"

ErrorTypeBadRequest == "Bad request"
ErrorTypeUnauthorized == "Unauthorized"
ErrorTypeForbidden == "Forbidden"
ErrorTypeInternalServer == "Internal server error"

ReasonUserDoesntExist == "User doesn't exist"
ReasonOrganisationUserDoesntExist == "Organisation User doesn't exist"
ReasonNotAllowed == "Not allowed / wrong permissions"
ReasonFieldMissing == "Required field missing"
ReasonFieldInvalid == "Invalid field"
ReasonRedisFailure == "Redis error"

\* ------------------------------------------------------- the model's world
\* user ids of the directory, and one id that no user has
UserIDs == {"u1", "u2"}
UnknownUUID == "u9"
\* organisation ids
OrganisationIDs == {"o1", "o2"}
\* the codes RandCode can draw, and what a caller can submit
Codes == {"AAAAAA", "BBBBBB"}
\* the steps of the clock that matter to the life of a code, and those that
\* matter to the identity and the life of a token
CodeTickSteps == {CodeTTL}
TokenTickSteps == {1, TokenTTL}

VARIABLES
    now,                \* time.Now().Unix()
    ticks,              \* how often the clock has advanced
    redis,              \* the redis keyspace: key -> [val, expireAt]
    user,               \* table "user": id -> row
    organisation_user,  \* table "organisation_user": a set of rows
    contact,            \* table "contact": a set of rows
    user_activity,      \* the rows the operation that completed last inserted
                        \* into table "user_activity"
    resp,               \* the answer of the request that completed last
    pc,                 \* position of each concurrent GenerateJWTString call
    call                \* locals of each concurrent GenerateJWTString call

vars == <<now, ticks, redis, user, organisation_user, contact, user_activity, resp,
          pc, call>>

\* ------------------------------------------------------------------- redis
\* redis SET key val EX ttl
RedisSet(r, key, val, ttl) ==
    [k \in DOMAIN r \cup {key} |->
        IF k = key THEN [val |-> val, expireAt |-> now + ttl] ELSE r[k]]

\* redis DEL key
RedisDel(r, key) == [k \in DOMAIN r \ {key} |-> r[k]]

\* redis GET key: Err() # nil when the key is absent (redis.Nil)
RedisGetErr(r, key) == key \notin DOMAIN r

RedisGetVal(r, key) == r[key].val

\* redis drops a key when its time to live has passed
RedisExpire(r, t) == [k \in {x \in DOMAIN r : r[x].expireAt > t} |-> r[k]]

\* fmt.Sprintf("%s%s", UUID, suffix)
GenerateRedisKey(UUID, suffix) == UUID \o suffix

\* redisKey := tk.UserUUID + "|" + tk.OrganisationUUID
SessionKey(userUUID, organisationUUID) == userUUID \o "|" \o organisationUUID

\* ------------------------------------------------------------------ tokens
\* a signed token string stands for its claims and the key it was signed with:
\* HS256 over the JSON of the claims is a function of exactly these
SignedString(userUUID, organisationUUID, iat, exp, secret) ==
    [UserUUID |-> userUUID, OrganisationUUID |-> organisationUUID,
     IssuedAt |-> iat, ExpiresAt |-> exp, key |-> secret]

NoJWT == [none |-> TRUE]

\* a string that is no JWT at all
GarbageToken == [garbage |-> TRUE]

\* jwt.ParseWithClaims with the server's key: the signature must verify and
\* the standard claims must be valid (not expired, not issued in the future)
ParseWithClaimsOK(tokenPart, t) ==
    /\ tokenPart # GarbageToken
    /\ tokenPart # NoJWT
    /\ tokenPart.key = TOKEN_PASSWORD
    /\ t <= tokenPart.ExpiresAt
    /\ tokenPart.IssuedAt <= t


\* ------------------------------------------------------------------ errors
NoError == [none |-> TRUE]

\* APIError.SetErrorType: the status code chosen for an error type
SetErrorTypeCode(errType) ==
    CASE errType = ErrorTypeBadRequest -> 400
      [] errType = ErrorTypeUnauthorized -> 401
      [] errType = "Unprocessable Entity" -> 422
      [] errType = ErrorTypeInternalServer -> 500
      [] OTHER -> 500

\* an APIError with one nested error
APIError(errType, reason, message) ==
    [Type |-> errType, Code |-> SetErrorTypeCode(errType),
     Reason |-> reason, Message |-> message]

NewAccessForbiddenError(message) == APIError(ErrorTypeForbidden, ReasonNotAllowed, message)
NewInternalServerError(reason, message) == APIError(ErrorTypeInternalServer, reason, message)
NewRedisError(message) == APIError(ErrorTypeInternalServer, ReasonRedisFailure, message)
NewDatabaseError(message) == APIError(ErrorTypeInternalServer, "Database error", message)
NewTwilioError(message) == APIError(ErrorTypeInternalServer, "Twilio error", message)
NewUserDoesntExistError(message) == APIError(ErrorTypeUnauthorized, ReasonUserDoesntExist, message)
NewOrganisationUserDoesntExistError(message) ==
    APIError(ErrorTypeBadRequest, ReasonOrganisationUserDoesntExist, message)
NewRequiredFieldError(field) == APIError(ErrorTypeBadRequest, ReasonFieldMissing, field)
NewInvalidFieldError(field, message) == APIError(ErrorTypeBadRequest, ReasonFieldInvalid, message)

\* VerifyCodeHandler's secureErrorResponse (unauthorized / invalid code)
SecureErrorResponse == APIError(ErrorTypeUnauthorized, ReasonFieldInvalid, "Invalid code")

\* an error that is always sent
ShouldSilenceError_Never(e) == FALSE

\* APIError.ShouldSilenceError
ShouldSilenceError(e) ==
    /\ e # NoError
    /\ e.Type = ErrorTypeUnauthorized
    /\ e.Reason \in {"User already exists", ReasonUserDoesntExist}

\* -------------------------------------------------------------- validation
\* UserAPI.SkipPrefix as the service configures it, and the request paths
SkipPrefix == <<"/open">>
PathSignin == <<"/open", "/signin">>
PathInfo == <<"/me", "/info">>
PathSwitch == <<"/me", "/switch">>
Paths == {PathSignin, PathInfo, PathSwitch}

\* strings.HasPrefix
HasPrefix(s, prefix) ==
    /\ Len(s) >= Len(prefix)
    /\ SubSeq(s, 1, Len(prefix)) = prefix

Served(tk) == [next |-> TRUE, err |-> NoError, tk |-> tk]
Rejected(e) == [next |-> FALSE, err |-> e, tk |-> NoJWT]

\* a middleware that splits the header before it tests it for emptiness
JwtAuthenticationHandler_SplitFirst(requestPath, tokenHeader) ==
    IF HasPrefix(requestPath, SkipPrefix) THEN Served(NoJWT)
    ELSE IF Len(tokenHeader) # 2
        THEN Rejected(NewAccessForbiddenError("Invalid/Malformed auth token."))
    ELSE IF ~ParseWithClaimsOK(tokenHeader[2], now)
        THEN Rejected(NewAccessForbiddenError("Malformed authentication token."))
    ELSE IF RedisGetErr(redis,
                SessionKey(tokenHeader[2].UserUUID, tokenHeader[2].OrganisationUUID))
        THEN Rejected(NewAccessForbiddenError("Token is not valid (not issued by the server)."))
    ELSE IF RedisGetVal(redis,
                SessionKey(tokenHeader[2].UserUUID, tokenHeader[2].OrganisationUUID))
            # tokenHeader[2]
        THEN Rejected(NewAccessForbiddenError("Token is corrupted (not issued by the server)."))
    ELSE Served(tokenHeader[2])

\* a middleware that looks the key up but does not compare the stored token
JwtAuthenticationHandler_NoCompare(requestPath, tokenHeader) ==
    IF HasPrefix(requestPath, SkipPrefix) THEN Served(NoJWT)
    ELSE IF tokenHeader = <<>>
        THEN Rejected(NewAccessForbiddenError("Missing auth token."))
    ELSE IF Len(tokenHeader) # 2
        THEN Rejected(NewAccessForbiddenError("Invalid/Malformed auth token."))
    ELSE IF ~ParseWithClaimsOK(tokenHeader[2], now)
        THEN Rejected(NewAccessForbiddenError("Malformed authentication token."))
    ELSE IF RedisGetErr(redis,
                SessionKey(tokenHeader[2].UserUUID, tokenHeader[2].OrganisationUUID))
        THEN Rejected(NewAccessForbiddenError("Token is not valid (not issued by the server)."))
    ELSE Served(tokenHeader[2])

\* JwtAuthenticationHandler: the outcome for a request with path requestPath
\* whose Authorization header splits at " " into the parts tokenHeader
\* (<<>> is the empty header); next tells whether next.ServeHTTP is called
\* and tk is the token put into the request context
JwtAuthenticationHandler(requestPath, tokenHeader) ==
    IF HasPrefix(requestPath, SkipPrefix) THEN Served(NoJWT)
    ELSE IF tokenHeader = <<>>
        THEN Rejected(NewAccessForbiddenError("Missing auth token."))
    ELSE IF Len(tokenHeader) # 2
        THEN Rejected(NewAccessForbiddenError("Invalid/Malformed auth token."))
    ELSE IF ~ParseWithClaimsOK(tokenHeader[2], now)
        THEN Rejected(NewAccessForbiddenError("Malformed authentication token."))
    ELSE IF RedisGetErr(redis,
                SessionKey(tokenHeader[2].UserUUID, tokenHeader[2].OrganisationUUID))
        THEN Rejected(NewAccessForbiddenError("Token is not valid (not issued by the server)."))
    ELSE IF RedisGetVal(redis,
                SessionKey(tokenHeader[2].UserUUID, tokenHeader[2].OrganisationUUID))
            # tokenHeader[2]
        THEN Rejected(NewAccessForbiddenError("Token is corrupted (not issued by the server)."))
    ELSE Served(tokenHeader[2])

\* the header a client sends to present a token
Bearer(t) == <<"Bearer", t>>

\* ------------------------------------------------------------ what callers send
\* the session tokens currently registered in redis
StoredTokens ==
    {redis[k].val : k \in {x \in DOMAIN redis : "UserUUID" \in DOMAIN redis[x].val}}

\* tokens signed by the server that need not be registered: for every
\* registered token one of the same pair issued at time 0, and one of a
\* pair that may have no entry
UnregisteredTokens ==
    {SignedString(t.UserUUID, t.OrganisationUUID, 0, TokenTTL, TOKEN_PASSWORD) :
        t \in StoredTokens}
    \cup {SignedString("u1", "o1", 0, TokenTTL, TOKEN_PASSWORD)}

\* the token parts a caller may present: registered tokens, unregistered
\* tokens, tokens signed with another key, and garbage
PresentableTokens ==
    StoredTokens
    \cup UnregisteredTokens
    \cup {[t EXCEPT !.key = "forged"] : t \in StoredTokens}
    \cup {GarbageToken}

\* the Authorization headers a caller may send
Headers ==
    {<<>>, <<"Bearer">>}
    \cup {Bearer(t) : t \in PresentableTokens}
    \cup {<<"Bearer", t, "x">> : t \in StoredTokens}

\* the requests a caller may send to endpoints behind the middleware
Requests ==
    {<<PathSignin, <<>>>>} \cup {<<PathInfo, h>> : h \in Headers}

\* the headers of the callers of the switch endpoint: no header, or a token
\* signed by the server
SwitchHeaders ==
    {<<>>} \cup {Bearer(t) : t \in StoredTokens \cup UnregisteredTokens}


\* strings.TrimSpace: the string without its leading and trailing spaces
\* (the ids of the table user have none)
RECURSIVE TrimSpace(_)
TrimSpace(s) ==
    IF s \in DOMAIN user THEN s
    ELSE IF Len(s) > 0 /\ SubSeq(s, 1, 1) = " " THEN TrimSpace(SubSeq(s, 2, Len(s)))
    ELSE IF Len(s) > 0 /\ SubSeq(s, Len(s), Len(s)) = " "
        THEN TrimSpace(SubSeq(s, 1, Len(s) - 1))
    ELSE s

\* GetUser finds a user under the trimmed id
UserExists(UUID) == TrimSpace(UUID) \in DOMAIN user


\* User.LoginEmailUUID, User.LoginPhoneUUID: the ids of the contact rows of
\* a user who has the contact
LoginEmailUUID(u) == "email:" \o u
LoginPhoneUUID(u) == "phone:" \o u

\* the rows of table "contact" that belong to the rows of a user table
Contacts(users) ==
    {[ID |-> LoginEmailUUID(u), Type |-> "email"] :
        u \in {x \in DOMAIN users : users[x].LoginEmail}}
    \cup {[ID |-> LoginPhoneUUID(u), Type |-> "phone"] :
            u \in {x \in DOMAIN users : users[x].LoginPhone}}

\* OrganisationUser rows of a user / of a (user, organisation) pair
OrgUsersOf(userID) == {m \in organisation_user : m.UserID = userID}

\* OrganisationUser.Find with OrganisationID and UserID set: is there a row
FindOrgUser(rows, organisationID, userID) ==
    {m \in rows : m.OrganisationID = organisationID /\ m.UserID = userID}

\* the query for an organisation's active admin finds a row
HasActiveAdmin(rows, organisationID) ==
    \E m \in rows :
        /\ m.OrganisationID = organisationID
        /\ m.OrganisationRole = OrganisationRoleAdmin
        /\ m.Status = OrganisationUserStatusActive

\* a home selection that flags every row of the user
HomeRows_FlagAll(rows, userID, first) ==
    IF \E m \in rows : m.UserID = userID /\ m.IsHome
    THEN rows
    ELSE {IF m.UserID = userID THEN [m EXCEPT !.IsHome = TRUE] ELSE m : m \in rows}

\* the home row verifyOrganisationUserAndReturnHome works with: the row that
\* has IsHome, or else orgUsers[0] (first, the row the query lists first)
\* flagged IsHome
HomeRows(rows, userID, first) ==
    IF \E m \in rows : m.UserID = userID /\ m.IsHome
    THEN rows
    ELSE {IF m = first THEN [m EXCEPT !.IsHome = TRUE] ELSE m : m \in rows}

\* an activation loop that activates the home row only
ActivateRows_HomeOnly(rows, userID) ==
    {IF m.UserID = userID /\ m.Status = OrganisationUserStatusUnverified /\ m.IsHome
     THEN [m EXCEPT !.Status = OrganisationUserStatusActive,
                    !.OrganisationRole =
                        IF HasActiveAdmin(rows, m.OrganisationID)
                        THEN OrganisationRoleUser ELSE OrganisationRoleAdmin]
     ELSE m : m \in rows}

\* an activation loop that accepts invitations as well
ActivateRows_Invited(rows, userID) ==
    {IF m.UserID = userID /\ m.Status # OrganisationUserStatusActive
     THEN [m EXCEPT !.Status = OrganisationUserStatusActive,
                    !.OrganisationRole =
                        IF HasActiveAdmin(rows, m.OrganisationID)
                        THEN OrganisationRoleUser ELSE OrganisationRoleAdmin]
     ELSE m : m \in rows}

\* an activation loop that does not ask for the organisation's admin
ActivateRows_AlwaysAdmin(rows, userID) ==
    {IF m.UserID = userID /\ m.Status = OrganisationUserStatusUnverified
     THEN [m EXCEPT !.Status = OrganisationUserStatusActive,
                    !.OrganisationRole = OrganisationRoleAdmin]
     ELSE m : m \in rows}

\* the activation loop: every unverified row of the user becomes active, as
\* admin when its organisation has no active admin, as user otherwise
ActivateRows(rows, userID) ==
    {IF m.UserID = userID /\ m.Status = OrganisationUserStatusUnverified
     THEN [m EXCEPT !.Status = OrganisationUserStatusActive,
                    !.OrganisationRole =
                        IF HasActiveAdmin(rows, m.OrganisationID)
                        THEN OrganisationRoleUser ELSE OrganisationRoleAdmin]
     ELSE m : m \in rows}

\* a sign-in that scopes the token to no organisation
ResolvedHomeID_None(userID, home) == ""

\* verifyOrganisationUserAndReturnHome: the organisation id of the returned
\* home row ("" when the user has no row), home being the row returned
ResolvedHomeID(userID, home) ==
    IF OrgUsersOf(userID) = {} THEN "" ELSE home.OrganisationID

\* the rows verifyOrganisationUserAndReturnHome may return as home: a row
\* with IsHome if there is one, else whichever row the query lists first
HomeCandidates(userID) ==
    IF \E m \in OrgUsersOf(userID) : m.IsHome
    THEN {m \in OrgUsersOf(userID) : m.IsHome}
    ELSE OrgUsersOf(userID)

\* verifyOrganisationUserAndReturnHome: the table organisation_user afterwards
ResolvedOrgUsers(userID, home) ==
    IF OrgUsersOf(userID) = {} THEN organisation_user
    ELSE ActivateRows(HomeRows(organisation_user, userID, home), userID)

\* a resolver that leaves the status of the user as it is
ResolvedUsers_Unchanged(userID) == user

\* verifyOrganisationUserAndReturnHome: the table user afterwards
ResolvedUsers(userID) ==
    [user EXCEPT ![userID].Status = UserStatusVerified]

\* ------------------------------------------------------------------- state
Procs == {1, 2}
NoCall == [none |-> TRUE]

\* a response: the operation and what it was asked for (in), whether the
\* handler behind the middleware ran (next) and with which context token
\* (tk), the APIError the handler recorded (err), the error sent to the
\* caller (sent), the JWT of the answer (jwt), and the JWT of the answer
\* before when this is a repetition of a request that succeeded (prev)
NoResponse ==
    [op |-> "none", in |-> <<>>, next |-> FALSE, err |-> NoError, sent |-> NoError,
     jwt |-> NoJWT, tk |-> NoJWT, prev |-> NoJWT]

Response(op, auth, err, jwt) ==
    [op |-> op, in |-> <<>>, next |-> auth.next, err |-> err, sent |-> err,
     jwt |-> jwt, tk |-> auth.tk, prev |-> NoJWT]

\* the response r to a request that asked for in; prev is the JWT of the
\* response before when that answered the same request without an error
Asked(r, in) ==
    [r EXCEPT !.in = in,
              !.prev = IF resp.op = r.op /\ resp.in = in /\ resp.err = NoError
                       THEN resp.jwt ELSE NoJWT]

\* a response whose error is recorded but not sent (ShouldSilenceError)
Silenced(r) == [r EXCEPT !.sent = NoError]

\* the directory as first found: u1 signed up with the reference key of o1
\* and was invited to o2; u2 has no organisation and has the given role
InitWith(role) ==
    /\ now = 0
    /\ ticks = 0
    /\ redis = <<>>
    /\ user = [u \in UserIDs |->
                IF u = "u1"
                THEN [Role |-> UserRoleUser, Status |-> UserStatusUnverified,
                      LoginEmail |-> TRUE, LoginPhone |-> TRUE, LoginWebAuthn |-> ""]
                ELSE [Role |-> role, Status |-> UserStatusVerified,
                      LoginEmail |-> TRUE, LoginPhone |-> FALSE, LoginWebAuthn |-> ""]]
    /\ organisation_user =
        {[ID |-> "m1", OrganisationID |-> "o1", UserID |-> "u1",
          OrganisationRole |-> OrganisationRoleUser, IsHome |-> FALSE,
          Status |-> OrganisationUserStatusUnverified],
         [ID |-> "m2", OrganisationID |-> "o2", UserID |-> "u1",
          OrganisationRole |-> OrganisationRoleUser, IsHome |-> FALSE,
          Status |-> OrganisationUserStatusInvited]}
    /\ contact = Contacts(user)
    /\ user_activity = <<>>
    /\ resp = NoResponse
    /\ pc = [p \in Procs |-> "idle"]
    /\ call = [p \in Procs |-> NoCall]

\* u2 is no platform admin
Init == InitWith(UserRoleUser)

\* u2 is a platform admin or not
InitToken == \E role \in {UserRoleAdmin, UserRoleUser} : InitWith(role)

\* ---------------------------------------------------------------- activities
\* UserActivity types; the value of ActivityTypeSignUpWebAuth is not part of
\* the source at hand, it is taken to be a type of its own
ActivityTypeSignUp == "sign_up"
ActivityTypeSignIn == "sign_in"
ActivityTypeSendOtp == "send_otp"
ActivityTypeVerifyOtp == "verify_otp"
ActivityTypeSignUpWebAuth == "sign_up_web_auth"
ActivityTypeSwitchOrganisation == "switch"
ActivityTypeSessionLength == "user_session"
ActivityTypeUserInfo == "get_user_info"

\* models.UnknownUser
UnknownUser == "00000000-0000-0000-0000-000000000000"

\* PrepareActivityInformation: the address the X-Real-IP header of the
\* requests names
RemoteAddr == "198.51.100.7"

\* convertToUserActivity(info, activityType): the row for a handler whose
\* info holds loggedInUser (NoJWT is nil) and apiError (NoError is nil)
convertToUserActivity(loggedInUser, apiError, activityType) ==
    [Type |-> activityType,
     UserID |-> IF loggedInUser = NoJWT THEN UnknownUser ELSE loggedInUser.UserUUID,
     Info |-> apiError,
     RemoteAddr |-> RemoteAddr]

\* the rows of a sign-in handler that answers r: a handler that issued a
\* token sets info.LoggedInUser from it and creates the session row, then
\* the deferred CreateUserActivity creates the row of the handler
SignInActivities(r, activityType) ==
    IF r.jwt # NoJWT
    THEN <<convertToUserActivity(r.jwt, r.err, ActivityTypeSessionLength),
           convertToUserActivity(r.jwt, r.err, activityType)>>
    ELSE <<convertToUserActivity(NoJWT, r.err, activityType)>>

\* the activity type of the handler a path is routed to
PathActivityType(requestPath) ==
    IF requestPath = PathSignin THEN ActivityTypeSignIn
    ELSE IF requestPath = PathSwitch THEN ActivityTypeSwitchOrganisation
    ELSE ActivityTypeUserInfo

\* the rows of a handler behind JwtAuthenticationHandler that answers r:
\* the middleware creates no row when it rejects the request; the handler
\* sets info.LoggedInUser from the context and its deferred
\* CreateUserActivity creates the row
ContextActivities(r, activityType) ==
    IF ~r.next THEN <<>>
    ELSE <<convertToUserActivity(r.tk, r.err, activityType)>>

\* ------------------------------------------------------------------- clock
\* time passes; redis drops the keys whose time to live is over
Tick(d) ==
    /\ ticks < MaxTicks
    /\ now' = now + d
    /\ ticks' = ticks + 1
    /\ redis' = RedisExpire(redis, now + d)
    /\ UNCHANGED <<user, organisation_user, contact, user_activity, resp, pc, call>>

\* ----------------------------------------------------- session token service
\* a token string that expires a month after its redis entry
NewJWTString_LongLived(userUUID, organisationUUID) ==
    SignedString(userUUID, organisationUUID, now, now + 2 * TokenTTL, TOKEN_PASSWORD)

\* GenerateJWTString: the token string it signs
NewJWTString(userUUID, organisationUUID) ==
    SignedString(userUUID, organisationUUID, now, now + TokenTTL, TOKEN_PASSWORD)

\* a registry keyed by the user alone
JWTStored_KeyedByUser(r, userUUID, organisationUUID, setOK) ==
    IF setOK
    THEN RedisSet(r, SessionKey(userUUID, ""),
                  NewJWTString(userUUID, organisationUUID), TokenTTL)
    ELSE r

\* GenerateJWTString: redis after its Set, which succeeds when setOK
JWTStored(r, userUUID, organisationUUID, setOK) ==
    IF setOK
    THEN RedisSet(r, SessionKey(userUUID, organisationUUID),
                  NewJWTString(userUUID, organisationUUID), TokenTTL)
    ELSE r

\* GenerateJWTString(userUUID, organisationUUID) called as a library function
GenerateJWTString(userUUID, organisationUUID) ==
    \E setOK \in BOOLEAN :
        /\ redis' = JWTStored(redis, userUUID, organisationUUID, setOK)
        /\ resp' = Asked(Response("GenerateJWTString",
                                  Served(NoJWT),
                                  IF setOK THEN NoError
                                  ELSE NewRedisError("Set token failure"),
                                  IF setOK THEN NewJWTString(userUUID, organisationUUID)
                                  ELSE NoJWT),
                         <<userUUID, organisationUUID>>)
        /\ user_activity' = <<>>
        /\ UNCHANGED <<contact, now, ticks, user, organisation_user, pc, call>>

\* a request to an endpoint behind JwtAuthenticationHandler (next stands for
\* any handler that changes nothing)
Request(requestPath, tokenHeader) ==
    /\ resp' = [Response("request",
                         JwtAuthenticationHandler(requestPath, tokenHeader),
                         JwtAuthenticationHandler(requestPath, tokenHeader).err, NoJWT)
                 EXCEPT !.tk = NoJWT]
    /\ user_activity' = ContextActivities(JwtAuthenticationHandler(requestPath, tokenHeader),
                                         PathActivityType(requestPath))
    /\ UNCHANGED <<contact, now, ticks, redis, user, organisation_user, pc, call>>


\* a switch that does not look for the OrganisationUser row
SwitchCheck_NoFind(tk, organisationID) ==
    IF ~UserExists(tk.UserUUID)
        THEN NewUserDoesntExistError("User with provided uuid doesn't exist")
    ELSE NoError

\* ChangeOrganisationHandler: the checks between the middleware and the
\* token generation; NoError when the switch is allowed
\* (GetUserRole, then for a user who is no platform admin OrganisationUser.Find)
SwitchCheck(tk, organisationID) ==
    IF ~UserExists(tk.UserUUID)
        THEN NewUserDoesntExistError("User with provided uuid doesn't exist")
    ELSE IF /\ user[tk.UserUUID].Role # UserRoleAdmin
            /\ FindOrgUser(organisation_user, organisationID, tk.UserUUID) = {}
        THEN NewOrganisationUserDoesntExistError(
                "Organisation User with provided parameters doesn't exist")
    ELSE NoError

\* a switch that drops every other session of the user
SwitchStore_DelAllOfUser(tk, organisationID, setOK, delOK) ==
    IF ~setOK THEN redis
    ELSE IF ~delOK THEN JWTStored(redis, tk.UserUUID, organisationID, TRUE)
    ELSE [k \in DOMAIN JWTStored(redis, tk.UserUUID, organisationID, TRUE)
                \ {SessionKey(tk.UserUUID, o) :
                        o \in (OrganisationIDs \cup {""}) \ {organisationID}}
            |-> JWTStored(redis, tk.UserUUID, organisationID, TRUE)[k]]

\* a switch that leaves the key of the previous pair
SwitchStore_NoDel(tk, organisationID, setOK, delOK) ==
    IF ~setOK THEN redis
    ELSE JWTStored(redis, tk.UserUUID, organisationID, TRUE)

\* ChangeOrganisationHandler: redis after a switch that passed the checks:
\* the new token is set, then the key of the previous pair is deleted
SwitchStore(tk, organisationID, setOK, delOK) ==
    IF ~setOK THEN redis
    ELSE IF ~delOK THEN JWTStored(redis, tk.UserUUID, organisationID, TRUE)
    ELSE RedisDel(JWTStored(redis, tk.UserUUID, organisationID, TRUE),
                  SessionKey(tk.UserUUID, tk.OrganisationUUID))

\* ChangeOrganisationHandler: what a switch that passed the checks answers
SwitchAnswer(auth, organisationID, setOK, delOK) ==
    IF ~setOK
        THEN Response("switch", auth,
                      NewRedisError("Set token failure"), NoJWT)
    ELSE IF ~delOK
        THEN Response("switch", auth,
                      NewRedisError("Del token failure"), NoJWT)
    ELSE Response("switch", auth, NoError,
                  NewJWTString(auth.tk.UserUUID, organisationID))

\* a switch that issues and revokes also when the token already names the
\* organisation asked for
ChangeOrganisationHandler_NoSameCheck(tokenHeader, organisationID) ==
    LET auth == JwtAuthenticationHandler(PathSwitch, tokenHeader) IN
    /\ IF ~auth.next
       THEN /\ resp' = Response("switch", auth, auth.err, NoJWT)
            /\ UNCHANGED redis
       ELSE IF SwitchCheck(auth.tk, organisationID) # NoError
       THEN /\ resp' = [Response("switch", auth,
                                 SwitchCheck(auth.tk, organisationID), NoJWT)
                         EXCEPT !.in = <<organisationID>>]
            /\ UNCHANGED redis
       ELSE \E setOK, delOK \in BOOLEAN :
            /\ redis' = SwitchStore(auth.tk, organisationID, setOK, delOK)
            /\ resp' = [SwitchAnswer(auth, organisationID, setOK, delOK)
                         EXCEPT !.in = <<organisationID>>]
    /\ user_activity' = ContextActivities(resp', ActivityTypeSwitchOrganisation)
    /\ UNCHANGED <<contact, now, ticks, user, organisation_user, pc, call>>

\* POST api/users/switch/{organisation_id}, behind JwtAuthenticationHandler
ChangeOrganisationHandler(tokenHeader, organisationID) ==
    LET auth == JwtAuthenticationHandler(PathSwitch, tokenHeader) IN
    /\ IF ~auth.next
       THEN /\ resp' = Response("switch", auth, auth.err, NoJWT)
            /\ UNCHANGED redis
       ELSE IF auth.tk.OrganisationUUID = organisationID
       THEN \* already logged into the organisation: respond with the same JWT
            /\ resp' = [Response("switch", auth, NoError, tokenHeader[2])
                         EXCEPT !.in = <<organisationID>>]
            /\ UNCHANGED redis
       ELSE IF SwitchCheck(auth.tk, organisationID) # NoError
       THEN /\ resp' = [Response("switch", auth,
                                 SwitchCheck(auth.tk, organisationID), NoJWT)
                         EXCEPT !.in = <<organisationID>>]
            /\ UNCHANGED redis
       ELSE \E setOK, delOK \in BOOLEAN :
            /\ redis' = SwitchStore(auth.tk, organisationID, setOK, delOK)
            /\ resp' = [SwitchAnswer(auth, organisationID, setOK, delOK)
                         EXCEPT !.in = <<organisationID>>]
    /\ user_activity' = ContextActivities(resp', ActivityTypeSwitchOrganisation)
    /\ UNCHANGED <<contact, now, ticks, user, organisation_user, pc, call>>

\* ------------------------------------------------------- OTP challenge manager
\* the value kept in redis for a code
CodeValue(code) == [code |-> code]

\* the otp types a caller may name ("" is a missing type)
OtpTypes == {"email", "phone", "sms", ""}

\* the codes a caller submits: only the e-mail branch reads reqStruct.Code
\* itself (the phone branch hands it to the provider)
SubmittedCodes(type) == IF type = "email" THEN Codes \cup {""} ELSE {""}

\* the User struct GetUser leaves behind when it finds no user
EmptyUser ==
    [Role |-> "", Status |-> "", LoginEmail |-> FALSE, LoginPhone |-> FALSE,
     LoginWebAuthn |-> ""]

\* a send_otp check that does not look for the contact of the channel
SendCheck_AnyChannel(UUID, type) ==
    IF ~UserExists(UUID)
        THEN NewUserDoesntExistError("User with provided uuid doesn't exist")
    ELSE IF type = "" THEN NewRequiredFieldError("type")
    ELSE IF type \in {"phone", "email"} THEN NoError
    ELSE NewInvalidFieldError("type", "Invalid otp type")

\* SendCodeHandler: the error it ends with before anything is stored
SendCheck(UUID, type) ==
    IF ~UserExists(UUID)
        THEN NewUserDoesntExistError("User with provided uuid doesn't exist")
    ELSE IF type = "" THEN NewRequiredFieldError("type")
    ELSE IF type = "phone"
        THEN IF ~user[TrimSpace(UUID)].LoginPhone
             THEN NewInvalidFieldError("type", "User doesn't have phone contact")
             ELSE NoError
    ELSE IF type = "email"
        THEN IF ~user[TrimSpace(UUID)].LoginEmail
             THEN NewInvalidFieldError("type", "User doesn't have email")
             ELSE NoError
    ELSE NewInvalidFieldError("type", "Invalid otp type")

\* SendCodeHandler: what it stores and answers
SendCodeAnswer(UUID, type) ==
    /\ IF SendCheck(UUID, type) # NoError
       THEN /\ resp' = IF ShouldSilenceError(SendCheck(UUID, type))
                       THEN Silenced(Response("send_otp", Served(NoJWT),
                                              SendCheck(UUID, type), NoJWT))
                       ELSE Response("send_otp", Served(NoJWT),
                                     SendCheck(UUID, type), NoJWT)
            /\ UNCHANGED redis
       ELSE IF type = "phone"
       THEN \* the provider keeps the code
            /\ resp' = Response("send_otp", Served(NoJWT), NoError, NoJWT)
            /\ UNCHANGED redis
       ELSE \E code \in Codes, setOK \in BOOLEAN :
            /\ redis' = IF setOK
                        THEN RedisSet(redis, GenerateRedisKey(UUID, KeySignUp),
                                      CodeValue(code), CodeTTL)
                        ELSE redis
            /\ resp' = Response("send_otp", Served(NoJWT),
                                IF setOK THEN NoError ELSE NewRedisError("Set code failure"),
                                NoJWT)
    /\ user_activity' = <<convertToUserActivity(NoJWT, resp'.err, ActivityTypeSendOtp)>>

\* POST api/users/send_otp; the delivery it starts writes no state of the
\* program and is not observed
SendCodeHandler(UUID, type) ==
    /\ SendCodeAnswer(UUID, type)
    /\ UNCHANGED <<contact, now, ticks, user, organisation_user, pc, call>>

\* a code check that reads Val() without testing Err(): a missing key reads ""
VerifyCheck_NoGetErr(UUID, type, code, twilioOK) ==
    LET u == IF UserExists(UUID) THEN user[TrimSpace(UUID)] ELSE EmptyUser
        stored == IF RedisGetErr(redis, GenerateRedisKey(UUID, KeySignUp))
                  THEN CodeValue("")
                  ELSE RedisGetVal(redis, GenerateRedisKey(UUID, KeySignUp))
    IN
    IF type = "" THEN NewRequiredFieldError("type")
    ELSE IF type = "phone"
        THEN IF ~u.LoginPhone
             THEN NewInvalidFieldError("type", "User doesn't have phone contact")
             ELSE IF ~twilioOK THEN NewTwilioError("Verify OTP") ELSE NoError
    ELSE IF type = "email"
        THEN IF ~u.LoginEmail
             THEN NewInvalidFieldError("type", "User doesn't have email contact")
             ELSE IF stored # CodeValue(code)
             THEN SecureErrorResponse
             ELSE NoError
    ELSE NewInvalidFieldError("type", "Invalid otp type")

\* VerifyCodeHandler: the error the code check ends with, NoError when the
\* code is accepted. The handler tests err, not apiError, after GetUser, so an
\* unknown user is checked as the empty User struct. twilioOK is the
\* provider's verdict for the phone channel
VerifyCheck(UUID, type, code, twilioOK) ==
    LET u == IF UserExists(UUID) THEN user[TrimSpace(UUID)] ELSE EmptyUser IN
    IF type = "" THEN NewRequiredFieldError("type")
    ELSE IF type = "phone"
        THEN IF ~u.LoginPhone
             THEN NewInvalidFieldError("type", "User doesn't have phone contact")
             ELSE IF ~twilioOK THEN NewTwilioError("Verify OTP") ELSE NoError
    ELSE IF type = "email"
        THEN IF ~u.LoginEmail
             THEN NewInvalidFieldError("type", "User doesn't have email contact")
             ELSE IF RedisGetErr(redis, GenerateRedisKey(UUID, KeySignUp))
             THEN NewRedisError("Get code failure")
             ELSE IF RedisGetVal(redis, GenerateRedisKey(UUID, KeySignUp)) # CodeValue(code)
             THEN SecureErrorResponse
             ELSE NoError
    ELSE NewInvalidFieldError("type", "Invalid otp type")

\* the session data BeginLogin hands out for a user
LoginSession(UUID) == [session |-> UUID]

\* POST api/users/verify_otp
VerifyCodeHandler(UUID, type, code) ==
    \E twilioOK \in (IF type = "phone" THEN BOOLEAN ELSE {TRUE}) :
    /\ IF VerifyCheck(UUID, type, code, twilioOK) # NoError
       THEN /\ resp' = Asked(Response("verify_otp", Served(NoJWT),
                                      VerifyCheck(UUID, type, code, twilioOK), NoJWT),
                             <<UUID, type>>)
            /\ UNCHANGED <<redis, user, organisation_user>>
       ELSE IF user[TrimSpace(UUID)].LoginWebAuthn # ""
       THEN \* web authn autorization: the login challenge is stored, no token
            \E setOK \in BOOLEAN :
            /\ redis' = IF setOK
                        THEN RedisSet(redis,
                                      GenerateRedisKey(TrimSpace(UUID), KeyWebAuthnLogin),
                                      LoginSession(TrimSpace(UUID)), CodeTTL)
                        ELSE redis
            /\ resp' = Asked(Response("verify_otp", Served(NoJWT),
                                      IF setOK THEN NoError
                                      ELSE NewRedisError("Set web authn failure"),
                                      NoJWT),
                             <<UUID, type>>)
            /\ UNCHANGED <<user, organisation_user>>
       ELSE \E setOK \in BOOLEAN, ID \in {TrimSpace(UUID)} :
            \E home \in (IF OrgUsersOf(ID) = {} THEN {NoCall} ELSE HomeCandidates(ID)) :
            /\ organisation_user' = ResolvedOrgUsers(ID, home)
            /\ user' = ResolvedUsers(ID)
            /\ redis' = JWTStored(redis, ID, ResolvedHomeID(ID, home), setOK)
            /\ resp' = Asked(Response("verify_otp", Served(NoJWT),
                                      IF setOK THEN NoError
                                      ELSE NewRedisError("Set token failure"),
                                      IF setOK
                                      THEN NewJWTString(ID, ResolvedHomeID(ID, home))
                                      ELSE NoJWT),
                             <<UUID, type>>)
    /\ user_activity' = SignInActivities(resp', ActivityTypeVerifyOtp)
    /\ UNCHANGED <<contact, now, ticks, pc, call>>

\* POST api/users/verify_otp as the earlier UserAPI.VerifyCodeHandler has it:
\* the home organisation is selected and the memberships are activated
\* before the type, the contact and the code are checked; the user is saved
\* as verified and the token issued once the code is accepted
VerifyCodeHandlerResolveFirst(UUID, type, code) ==
    \E twilioOK \in (IF type = "phone" THEN BOOLEAN ELSE {TRUE}),
       ID \in {TrimSpace(UUID)} :
    \E home \in (IF OrgUsersOf(ID) = {} THEN {NoCall} ELSE HomeCandidates(ID)) :
    /\ organisation_user' = ResolvedOrgUsers(ID, home)
    /\ IF VerifyCheck(UUID, type, code, twilioOK) # NoError
       THEN /\ resp' = Asked(Response("verify_otp", Served(NoJWT),
                                      VerifyCheck(UUID, type, code, twilioOK), NoJWT),
                             <<UUID, type>>)
            /\ UNCHANGED <<redis, user>>
       ELSE \E setOK \in BOOLEAN :
            /\ user' = ResolvedUsers(ID)
            /\ redis' = JWTStored(redis, ID, ResolvedHomeID(ID, home), setOK)
            /\ resp' = Asked(Response("verify_otp", Served(NoJWT),
                                      IF setOK THEN NoError
                                      ELSE NewRedisError("Set token failure"),
                                      IF setOK
                                      THEN NewJWTString(ID, ResolvedHomeID(ID, home))
                                      ELSE NoJWT),
                             <<UUID, type>>)
    /\ user_activity' = SignInActivities(resp', ActivityTypeVerifyOtp)
    /\ UNCHANGED <<contact, now, ticks, pc, call>>

\* ------------------------------------------------------------------ sign-in
\* the login contacts of the directory: the e-mail address (Contact.Value1)
\* and the phone number (country code and number) of a user's contact
\* (the users sign-up creates all sign up with SignUpEmail)
NewUserIDs == {"u4", "u5"}
SignUpEmail == "new@cig.exchange"
ContactEmail(u) == IF u \in NewUserIDs THEN SignUpEmail ELSE u \o "@cig.exchange"
ContactPhone(u) == "+41 " \o u

\* GetUserByEmail / GetUserByMobile: the users found for an identifier
UsersByEmail(email) ==
    {u \in DOMAIN user : user[u].LoginEmail /\ ContactEmail(u) = email}
UsersByMobile(phone) ==
    {u \in DOMAIN user : user[u].LoginPhone /\ ContactPhone(u) = phone}
UsersBy(kind, value) ==
    IF kind = "email" THEN UsersByEmail(value) ELSE UsersByMobile(value)

\* cigExchange.RandomUUID(): the values it may return (ids of no user)
RandomUUIDs == {"r1", "r2"}

\* the answer of sign-in and sign-up: a userResponse with a uuid, or an error
UserResponse(op, in, err, sent, uuid) ==
    [op |-> op, in |-> in, next |-> TRUE, err |-> err, sent |-> sent,
     jwt |-> NoJWT, tk |-> NoJWT, prev |-> NoJWT, uuid |-> uuid]

\* GetUserHandler: the error of the lookup for the identifier of the
\* request: kind is "email", "phone" or "" (neither given)
SignInCheck(kind, value) ==
    IF kind = "" THEN NewRequiredFieldError("email, phone_number, phone_country_code")
    ELSE IF UsersBy(kind, value) = {}
        THEN IF kind = "email" THEN NewUserDoesntExistError("User lookup failed")
             ELSE NewUserDoesntExistError("User with provided phone number doesn't exist")
    ELSE NoError

\* POST api/users/signin
GetUserHandler(kind, value) ==
    /\ \E random \in RandomUUIDs :
        IF SignInCheck(kind, value) # NoError
        THEN resp' = IF ShouldSilenceError(SignInCheck(kind, value))
                     THEN UserResponse("signin", <<kind, value>>,
                                       SignInCheck(kind, value), NoError, random)
                     ELSE UserResponse("signin", <<kind, value>>,
                                       SignInCheck(kind, value), SignInCheck(kind, value), "")
        ELSE \E u \in UsersBy(kind, value) :
                resp' = UserResponse("signin", <<kind, value>>, NoError, NoError, u)
    /\ user_activity' = <<convertToUserActivity(NoJWT, resp'.err, ActivityTypeSignIn)>>
    /\ UNCHANGED <<contact, now, ticks, redis, user, organisation_user, pc, call>>

\* ------------------------------------------------------------------ sign-up
PlatformP2P == "p2p"
PlatformTrading == "trading"

\* Organisation.ReferenceKey of an organisation, and the organisations a
\* reference key finds
ReferenceKey(o) == "key-" \o o
OrganisationsByKey(referenceKey) ==
    {o \in OrganisationIDs : ReferenceKey(o) = referenceKey}

\* CreateUser: the users its contact lookup finds for the e-mail address
VerifiedByEmail(email) ==
    {u \in UsersByEmail(email) : user[u].Status = UserStatusVerified}
UnverifiedByEmail(email) == UsersByEmail(email) \ VerifiedByEmail(email)

\* User.BeforeCreate: the id of the next user row (u4, then u5)
FreshUserID == IF DOMAIN user \cap NewUserIDs = {} THEN "u4" ELSE "u5"

\* the user row CreateUser inserts
NewUser ==
    [Role |-> UserRoleUser, Status |-> UserStatusUnverified,
     LoginEmail |-> TRUE, LoginPhone |-> TRUE, LoginWebAuthn |-> ""]

\* an OrganisationUser row as OrganisationUser.Create inserts it
NewOrgUser(userID, organisationID, isHome, role, status) ==
    [ID |-> userID \o "/" \o organisationID, OrganisationID |-> organisationID,
     UserID |-> userID, OrganisationRole |-> role, IsHome |-> isHome,
     Status |-> status]

\* CreateUser: the user it returns, the verified user who has the e-mail
\* address or else the new user
CreatedUser(email) ==
    IF VerifiedByEmail(email) # {}
    THEN CHOOSE u \in VerifiedByEmail(email) : TRUE
    ELSE FreshUserID

\* a CreateUser that leaves a verified user's rows alone
CreateUserOrgUsers_NoLink(email, referenceKey) ==
    IF VerifiedByEmail(email) # {} THEN organisation_user
    ELSE {m \in organisation_user : m.UserID \notin UnverifiedByEmail(email)}
         \cup (IF referenceKey = "" THEN {}
               ELSE {NewOrgUser(FreshUserID,
                                CHOOSE o \in OrganisationsByKey(referenceKey) : TRUE,
                                FALSE, OrganisationRoleUser,
                                OrganisationUserStatusUnverified)})

\* CreateUser: the table organisation_user afterwards. A verified user gets
\* an unverified row for the reference key's organisation unless there is
\* one; the unverified users with the e-mail address are deleted with their
\* rows and the new user gets the row
CreateUserOrgUsers(email, referenceKey) ==
    LET link(who) ==
            IF referenceKey = "" THEN {}
            ELSE {NewOrgUser(who, CHOOSE o \in OrganisationsByKey(referenceKey) : TRUE,
                             FALSE, OrganisationRoleUser,
                             OrganisationUserStatusUnverified)}
    IN
    IF VerifiedByEmail(email) # {}
    THEN IF /\ referenceKey # ""
            /\ \A o \in OrganisationsByKey(referenceKey) :
                    FindOrgUser(organisation_user, o, CreatedUser(email)) = {}
         THEN organisation_user \cup link(CreatedUser(email))
         ELSE organisation_user
    ELSE {m \in organisation_user : m.UserID \notin UnverifiedByEmail(email)}
         \cup link(FreshUserID)

\* CreateUser: the table user afterwards
CreateUserUsers(email) ==
    IF VerifiedByEmail(email) # {} THEN user
    ELSE [u \in (DOMAIN user \ UnverifiedByEmail(email)) \cup {FreshUserID} |->
            IF u = FreshUserID THEN NewUser ELSE user[u]]

\* DeleteUnverifiedUser(user): the table contact afterwards; the row that
\* user.LoginEmailUUID names is deleted
DeleteUnverifiedUser(rows, u) == {c \in rows : c.ID # LoginEmailUUID(u)}

\* CreateUser: the table contact afterwards. GetDB().Create(user) inserts
\* the e-mail and the phone contact of the new user
CreateUserContacts(email) ==
    IF VerifiedByEmail(email) # {} THEN contact
    ELSE {c \in contact : \A u \in UnverifiedByEmail(email) :
                                c \in DeleteUnverifiedUser(contact, u)}
         \cup Contacts([u \in {FreshUserID} |-> NewUser])

\* CreateUserHandler: the error it ends with before anything is written
\* (the request's name and phone are valid)
SignUpCheck(platform, referenceKey) ==
    IF platform = "" THEN NewRequiredFieldError("platform")
    ELSE IF platform \notin {PlatformP2P, PlatformTrading}
        THEN NewInvalidFieldError("platform", "Invalid platform parameter")
    ELSE IF platform = PlatformP2P /\ referenceKey = ""
        THEN NewRequiredFieldError("reference_key")
    ELSE IF referenceKey # "" /\ OrganisationsByKey(referenceKey) = {}
        THEN NewInvalidFieldError("reference_key", "Organisation reference key is invalid")
    ELSE NoError

\* the session data BeginRegistration hands out for a user
RegisterSession(UUID) == [registration |-> UUID]

\* POST api/users/signup; new users are created while ids are left
CreateUserHandler(platform, email, referenceKey, webAuthn) ==
    /\ IF SignUpCheck(platform, referenceKey) # NoError
       THEN /\ resp' = UserResponse("signup", <<email, referenceKey, webAuthn>>,
                                    SignUpCheck(platform, referenceKey),
                                    SignUpCheck(platform, referenceKey), "")
            /\ UNCHANGED <<redis, user, organisation_user, contact>>
       ELSE /\ VerifiedByEmail(email) # {} \/ "u5" \notin DOMAIN user
            /\ user' = CreateUserUsers(email)
            /\ organisation_user' = CreateUserOrgUsers(email, referenceKey)
            /\ contact' = CreateUserContacts(email)
            /\ \E setOK \in (IF webAuthn THEN BOOLEAN ELSE {TRUE}) :
                /\ redis' = IF webAuthn /\ setOK
                            THEN RedisSet(redis,
                                          GenerateRedisKey(CreatedUser(email),
                                                           KeyWebAuthnRegister),
                                          RegisterSession(CreatedUser(email)), CodeTTL)
                            ELSE redis
                /\ resp' = IF setOK
                           THEN UserResponse("signup", <<email, referenceKey, webAuthn>>,
                                             NoError, NoError, CreatedUser(email))
                           ELSE UserResponse("signup", <<email, referenceKey, webAuthn>>,
                                             NewRedisError("Set web authn failure"),
                                             NewRedisError("Set web authn failure"), "")
    /\ user_activity' = <<convertToUserActivity(NoJWT, resp'.err, ActivityTypeSignUp)>>
    /\ UNCHANGED <<now, ticks, pc, call>>

\* a FinishRegistration that is content with a session of either purpose
RegisterCheck_AnySession(userID, finishOK) ==
    IF userID = "" THEN NewInvalidFieldError("user_id", "Invalid user id")
    ELSE IF ~UserExists(userID)
        THEN NewUserDoesntExistError("User with provided uuid doesn't exist")
    ELSE IF /\ RedisGetErr(redis, GenerateRedisKey(userID, KeyWebAuthnRegister))
            /\ RedisGetErr(redis, GenerateRedisKey(userID, KeyWebAuthnLogin))
        THEN NewRedisError("Get session failure")
    ELSE IF ~finishOK
        THEN NewInternalServerError("Web Auth finish registration failed", "")
    ELSE NoError

\* CreateUserWebAuthnHandler: the error it ends with; finishOK is the verdict
\* of webauthn.FinishRegistration
RegisterCheck(userID, finishOK) ==
    IF userID = "" THEN NewInvalidFieldError("user_id", "Invalid user id")
    ELSE IF ~UserExists(userID)
        THEN NewUserDoesntExistError("User with provided uuid doesn't exist")
    ELSE IF RedisGetErr(redis, GenerateRedisKey(userID, KeyWebAuthnRegister))
        THEN NewRedisError("Get session failure")
    ELSE IF ~finishOK
        THEN NewInternalServerError("Web Auth finish registration failed", "")
    ELSE NoError

\* a FinishRegistration that saves the credential whatever its check says
CreateUserWebAuthnHandler_AlwaysSave(userID) ==
    \E finishOK \in BOOLEAN :
    /\ resp' = Asked(Response("finish_registration", Served(NoJWT),
                              RegisterCheck(userID, finishOK), NoJWT),
                     <<userID>>)
    /\ user' = IF UserExists(userID)
               THEN [user EXCEPT ![userID].LoginWebAuthn = "credential"]
               ELSE user
    /\ user_activity' = <<convertToUserActivity(NoJWT, resp'.err, ActivityTypeSignUpWebAuth)>>
    /\ UNCHANGED <<contact, now, ticks, redis, organisation_user, pc, call>>

\* POST api/users/signup/{user_id}/webauthn (FinishRegistration)
CreateUserWebAuthnHandler(userID) ==
    \E finishOK \in BOOLEAN :
    /\ resp' = Asked(Response("finish_registration", Served(NoJWT),
                              RegisterCheck(userID, finishOK), NoJWT),
                     <<userID>>)
    /\ user' = IF RegisterCheck(userID, finishOK) = NoError
               THEN [user EXCEPT ![userID].LoginWebAuthn = "credential"]
               ELSE user
    /\ user_activity' = <<convertToUserActivity(NoJWT, resp'.err, ActivityTypeSignUpWebAuth)>>
    /\ UNCHANGED <<contact, now, ticks, redis, organisation_user, pc, call>>

\* --------------------------------------------------------------- invitation
\* CreateInvitedUser: the error it ends with: a verified user with the e-mail
\* address who has a row for the organisation is not invited again
InviteCheck(email, organisationID) ==
    IF VerifiedByEmail(email) = {} THEN NoError
    ELSE IF \E m \in FindOrgUser(organisation_user, organisationID, CreatedUser(email)) :
                m.Status = OrganisationUserStatusInvited
        THEN NewInvalidFieldError("email", "User already invited")
    ELSE IF FindOrgUser(organisation_user, organisationID, CreatedUser(email)) # {}
        THEN NewInvalidFieldError("email", "User already belongs to organisation")
    ELSE NoError

\* CreateInvitedUser(user, organisation): the verified user with the e-mail
\* address, or else a new user in place of the unverified ones, gets an
\* invited row for the organisation, created with IsHome set
CreateInvitedUser(email, organisationID) ==
    /\ IF InviteCheck(email, organisationID) # NoError
       THEN UNCHANGED <<user, organisation_user, contact>>
       ELSE /\ VerifiedByEmail(email) # {} \/ "u5" \notin DOMAIN user
            /\ user' = CreateUserUsers(email)
            /\ contact' = CreateUserContacts(email)
            /\ organisation_user' =
                    {m \in organisation_user :
                        VerifiedByEmail(email) # {} \/ m.UserID \notin UnverifiedByEmail(email)}
                    \cup {NewOrgUser(CreatedUser(email), organisationID, TRUE,
                                     OrganisationRoleUser, OrganisationUserStatusInvited)}
    /\ resp' = Asked(Response("CreateInvitedUser", Served(NoJWT),
                              InviteCheck(email, organisationID), NoJWT),
                     <<email, organisationID>>)
    /\ user_activity' = <<>>
    /\ UNCHANGED <<now, ticks, redis, pc, call>>

\* ------------------------------------- SetHomeOrganisation, statement by statement
\* the orders in which a query without ORDER BY may list the rows
RowOrders(rows) ==
    {sq \in [1..Cardinality(rows) -> rows] :
        \A i, j \in 1..Cardinality(rows) : i # j => sq[i] # sq[j]}

\* OrganisationUser.Update: GetDB().Save(orgUser) writes every field of the
\* struct to the row with its ID
SavedOrgUser(rows, orgUser) ==
    {m \in rows : m.ID # orgUser.ID} \cup {orgUser}

\* SetHomeOrganisation(homeOrgUser): the rows of the user are loaded
SetHomeFind(p, homeOrgUser) ==
    /\ pc[p] = "idle"
    /\ \E orgUsers \in RowOrders(OrgUsersOf(homeOrgUser.UserID)) :
            call' = [call EXCEPT ![p] = [home |-> homeOrgUser.ID, orgUsers |-> orgUsers]]
    /\ pc' = [pc EXCEPT ![p] = "home"]
    /\ UNCHANGED <<contact, user_activity, now, ticks, redis, user, organisation_user, resp>>

\* one round of the loop "modify IsHome field": the next row is updated when
\* its flag has to change; an Update that fails (updateOK false) ends the
\* function
SetHomeLoop(p) ==
    /\ pc[p] = "home"
    /\ IF call[p].orgUsers = <<>>
       THEN /\ pc' = [pc EXCEPT ![p] = "idle"]
            /\ call' = [call EXCEPT ![p] = NoCall]
            /\ UNCHANGED organisation_user
       ELSE LET orgUser == Head(call[p].orgUsers)
                isHome == (orgUser.ID = call[p].home)
            IN
            IF orgUser.IsHome = isHome
            THEN /\ call' = [call EXCEPT ![p].orgUsers = Tail(call[p].orgUsers)]
                 /\ UNCHANGED <<pc, organisation_user>>
            ELSE \E updateOK \in BOOLEAN :
                 IF updateOK
                 THEN /\ organisation_user' =
                            SavedOrgUser(organisation_user, [orgUser EXCEPT !.IsHome = isHome])
                      /\ call' = [call EXCEPT ![p].orgUsers = Tail(call[p].orgUsers)]
                      /\ UNCHANGED pc
                 ELSE /\ pc' = [pc EXCEPT ![p] = "idle"]
                      /\ call' = [call EXCEPT ![p] = NoCall]
                      /\ UNCHANGED organisation_user
    /\ UNCHANGED <<contact, user_activity, now, ticks, redis, user, resp>>

\* ------------------- verifyOrganisationUserAndReturnHome, statement by statement
\* the rows of the user are loaded in the order the query lists them; when
\* none has IsHome, orgUsers[0] is flagged and saved
ResolverLoad(p, userID) ==
    /\ pc[p] = "idle"
    /\ userID \in DOMAIN user
    /\ \E listed \in RowOrders(OrgUsersOf(userID)) :
        LET orgUsers == IF listed = <<>> \/ \E i \in DOMAIN listed : listed[i].IsHome
                        THEN listed
                        ELSE <<[listed[1] EXCEPT !.IsHome = TRUE]>> \o Tail(listed)
        IN
        /\ call' = [call EXCEPT ![p] = [user |-> userID, orgUsers |-> orgUsers,
                                        role |-> ""]]
        /\ organisation_user' = IF orgUsers = listed THEN organisation_user
                                ELSE SavedOrgUser(organisation_user, orgUsers[1])
    /\ pc' = [pc EXCEPT ![p] = "admin"]
    /\ UNCHANGED <<contact, user_activity, now, ticks, redis, user, resp>>

\* the loop "activate organisationUsers", first half of a round: the query
\* for an active admin of the row's organisation decides the role; after the
\* last row the user is saved as verified
ResolverFindAdmin(p) ==
    /\ pc[p] = "admin"
    /\ IF call[p].orgUsers = <<>>
       THEN /\ user' = ResolvedUsers(call[p].user)
            /\ pc' = [pc EXCEPT ![p] = "idle"]
            /\ call' = [call EXCEPT ![p] = NoCall]
       ELSE /\ call' = [call EXCEPT ![p].role =
                            IF HasActiveAdmin(organisation_user,
                                              Head(call[p].orgUsers).OrganisationID)
                            THEN OrganisationRoleUser ELSE OrganisationRoleAdmin]
            /\ pc' = [pc EXCEPT ![p] = "activate"]
            /\ UNCHANGED user
    /\ UNCHANGED <<contact, user_activity, now, ticks, redis, organisation_user, resp>>

\* second half of a round: an unverified row is saved as active with the
\* role decided
ResolverActivate(p) ==
    /\ pc[p] = "activate"
    /\ LET orgUser == Head(call[p].orgUsers) IN
       organisation_user' =
            IF orgUser.Status = OrganisationUserStatusUnverified
            THEN SavedOrgUser(organisation_user,
                              [orgUser EXCEPT !.Status = OrganisationUserStatusActive,
                                              !.OrganisationRole = call[p].role])
            ELSE organisation_user
    /\ call' = [call EXCEPT ![p].orgUsers = Tail(call[p].orgUsers)]
    /\ pc' = [pc EXCEPT ![p] = "admin"]
    /\ UNCHANGED <<contact, user_activity, now, ticks, redis, user, resp>>

\* ------------------------------------------------------ public-key sign-in
\* a FinishLogin that does not look for the stored login session
FinishCheck_NoSession(userID, finishOK) ==
    IF userID = "" THEN NewInvalidFieldError("user_id", "Invalid user id")
    ELSE IF ~UserExists(userID)
        THEN NewUserDoesntExistError("User with provided uuid doesn't exist")
    ELSE IF ~finishOK
        THEN NewInternalServerError("Web Auth finish registration failed", "")
    ELSE NoError

\* GetUserWebAuthnHandler: the error it ends with before the resolver runs,
\* NoError when the login is finished. finishOK is the verdict of
\* webauthn.FinishLogin on the caller's assertion
FinishCheck(userID, finishOK) ==
    IF userID = "" THEN NewInvalidFieldError("user_id", "Invalid user id")
    ELSE IF ~UserExists(userID)
        THEN NewUserDoesntExistError("User with provided uuid doesn't exist")
    ELSE IF RedisGetErr(redis, GenerateRedisKey(userID, KeyWebAuthnLogin))
        THEN NewRedisError("Get login session failure")
    ELSE IF ~finishOK
        THEN NewInternalServerError("Web Auth finish registration failed", "")
    ELSE NoError

\* POST api/users/signin/{user_id}/webauthn (FinishLogin)
GetUserWebAuthnHandler(userID) ==
    \E finishOK \in BOOLEAN :
    /\ IF FinishCheck(userID, finishOK) # NoError
       THEN /\ resp' = Asked(Response("finish_login", Served(NoJWT),
                                      FinishCheck(userID, finishOK), NoJWT),
                             <<userID>>)
            /\ UNCHANGED <<redis, user, organisation_user>>
       ELSE \E setOK \in BOOLEAN,
               home \in (IF OrgUsersOf(userID) = {} THEN {NoCall}
                         ELSE HomeCandidates(userID)) :
            /\ organisation_user' = ResolvedOrgUsers(userID, home)
            /\ user' = ResolvedUsers(userID)
            /\ redis' = JWTStored(redis, userID, ResolvedHomeID(userID, home), setOK)
            /\ resp' = Asked(Response("finish_login", Served(NoJWT),
                                      IF setOK THEN NoError
                                      ELSE NewRedisError("Set token failure"),
                                      IF setOK
                                      THEN NewJWTString(userID, ResolvedHomeID(userID, home))
                                      ELSE NoJWT),
                             <<userID>>)
    /\ user_activity' = SignInActivities(resp', ActivityTypeSignUpWebAuth)
    /\ UNCHANGED <<contact, now, ticks, pc, call>>

\* ------------------------------------------------------------------ GetInfo
\* a GetInfo that looks for the membership whatever the token's organisation
InfoCheck_AlwaysFind(tk) ==
    IF ~UserExists(tk.UserUUID)
        THEN NewUserDoesntExistError("User with provided uuid doesn't exist")
    ELSE IF FindOrgUser(organisation_user, tk.OrganisationUUID, tk.UserUUID) = {}
        THEN NewOrganisationUserDoesntExistError(
                "Organisation User with provided parameters doesn't exist")
    ELSE NoError

\* GetInfo: the error it ends with; the membership is looked up only when
\* the token names an organisation
InfoCheck(tk) ==
    IF ~UserExists(tk.UserUUID)
        THEN NewUserDoesntExistError("User with provided uuid doesn't exist")
    ELSE IF /\ tk.OrganisationUUID # ""
            /\ FindOrgUser(organisation_user, tk.OrganisationUUID, tk.UserUUID) = {}
        THEN NewOrganisationUserDoesntExistError(
                "Organisation User with provided parameters doesn't exist")
    ELSE NoError

\* GetInfo: the infoResponse for the context token tk; orgUser stays the
\* empty OrganisationUser when the token names no organisation
InfoResponse(tk) ==
    [UserUUID |-> tk.UserUUID,
     Role |-> user[TrimSpace(tk.UserUUID)].Role,
     OrganisationUUID |-> tk.OrganisationUUID,
     OrganisationRole |->
        IF tk.OrganisationUUID = "" THEN ""
        ELSE (CHOOSE x \in FindOrgUser(organisation_user, tk.OrganisationUUID,
                                       tk.UserUUID) : TRUE).OrganisationRole,
     UserEmail |-> IF user[TrimSpace(tk.UserUUID)].LoginEmail
                   THEN ContactEmail(tk.UserUUID) ELSE ""]

\* GET api/me/info behind JwtAuthenticationHandler
GetInfo(tokenHeader) ==
    LET auth == JwtAuthenticationHandler(PathInfo, tokenHeader)
        answer(err, info) ==
            [op |-> "info", in |-> <<>>, next |-> auth.next, err |-> err,
             sent |-> err, jwt |-> NoJWT, tk |-> auth.tk, prev |-> NoJWT,
             info |-> info]
    IN
    /\ resp' = IF ~auth.next THEN answer(auth.err, NoCall)
               ELSE IF InfoCheck(auth.tk) # NoError
               THEN answer(InfoCheck(auth.tk), NoCall)
               ELSE answer(NoError, InfoResponse(auth.tk))
    /\ user_activity' = ContextActivities(resp', ActivityTypeUserInfo)
    /\ UNCHANGED <<contact, now, ticks, redis, user, organisation_user, pc, call>>

\* ------------------------------------------------------------ code delivery
\* what the delivery goroutine p was started with: the channel, the contact
\* of the user and the code; delivered is the outcome once it has run
Delivery(UUID, type, code) ==
    [type |-> type,
     to |-> IF type = "phone" THEN ContactPhone(TrimSpace(UUID))
            ELSE ContactEmail(TrimSpace(UUID)),
     code |-> code, delivered |-> "pending"]

\* POST api/users/send_otp observed with its delivery: a request that has
\* passed the checks and stored the code starts the goroutine p (go func)
\* and is answered without waiting for it
SendCodeGo(p, UUID, type) ==
    /\ pc[p] = "idle"
    /\ SendCodeAnswer(UUID, type)
    /\ IF resp'.err = NoError
       THEN /\ pc' = [pc EXCEPT ![p] = "deliver"]
            /\ call' = [call EXCEPT ![p] =
                    Delivery(UUID, type,
                             IF type = "phone" THEN NoCall
                             ELSE RedisGetVal(redis', GenerateRedisKey(UUID, KeySignUp)))]
       ELSE UNCHANGED <<pc, call>>
    /\ UNCHANGED <<contact, now, ticks, user, organisation_user>>

\* a delivery whose failure takes the stored codes back
SendCodeDeliver_Rollback(p) ==
    /\ pc[p] = "deliver"
    /\ \E ok \in BOOLEAN :
        /\ call' = [call EXCEPT ![p].delivered = IF ok THEN "sent" ELSE "failed"]
        /\ redis' = IF ok THEN redis
                    ELSE [k \in {x \in DOMAIN redis : redis[x].val # call[p].code} |->
                            redis[k]]
    /\ pc' = [pc EXCEPT ![p] = "idle"]
    /\ UNCHANGED <<contact, user_activity, now, ticks, user, organisation_user, resp>>

\* the goroutine: twilioClient.ReceiveOTP or SendEmail, which may fail; the
\* error is printed
SendCodeDeliver(p) ==
    /\ pc[p] = "deliver"
    /\ \E ok \in BOOLEAN :
        call' = [call EXCEPT ![p].delivered = IF ok THEN "sent" ELSE "failed"]
    /\ pc' = [pc EXCEPT ![p] = "idle"]
    /\ UNCHANGED <<contact, user_activity, now, ticks, redis, user, organisation_user, resp>>

\* -------------------------------------- GenerateJWTString, statement by statement
\* IssuedAt: time.Now().Unix()
GenIssuedAt(p, userUUID, organisationUUID) ==
    /\ pc[p] = "idle"
    /\ pc' = [pc EXCEPT ![p] = "expires"]
    /\ call' = [call EXCEPT ![p] = [UserUUID |-> userUUID,
                                    OrganisationUUID |-> organisationUUID,
                                    IssuedAt |-> now, jwt |-> NoJWT, err |-> NoError]]
    /\ UNCHANGED <<contact, user_activity, now, ticks, redis, user, organisation_user, resp>>

\* ExpiresAt: time.Now().Add(...).Unix(), and token.SignedString
GenExpiresAt(p) ==
    /\ pc[p] = "expires"
    /\ pc' = [pc EXCEPT ![p] = "set"]
    /\ call' = [call EXCEPT ![p].jwt =
                    SignedString(call[p].UserUUID, call[p].OrganisationUUID,
                                 call[p].IssuedAt, now + TokenTTL, TOKEN_PASSWORD)]
    /\ UNCHANGED <<contact, user_activity, now, ticks, redis, user, organisation_user, resp>>

\* GetRedis().Set(redisKey, tokenString, ...) and the return
GenSet(p) ==
    /\ pc[p] = "set"
    /\ \E setOK \in BOOLEAN :
        /\ redis' = IF setOK
                    THEN RedisSet(redis,
                                  SessionKey(call[p].UserUUID, call[p].OrganisationUUID),
                                  call[p].jwt, TokenTTL)
                    ELSE redis
        /\ call' = [call EXCEPT ![p].err =
                        IF setOK THEN NoError ELSE NewRedisError("Set token failure")]
    /\ pc' = [pc EXCEPT ![p] = "done"]
    /\ UNCHANGED <<contact, user_activity, now, ticks, user, organisation_user, resp>>

\* ------------------------------ ChangeOrganisationHandler, statement by statement
\* the request up to the return of GenerateJWTString: the middleware, the
\* checks and the Set of the new token; a request that ends here is answered
SwitchIssue(p, tokenHeader, organisationID) ==
    LET auth == JwtAuthenticationHandler(PathSwitch, tokenHeader) IN
    /\ pc[p] = "idle"
    /\ IF ~auth.next
       THEN /\ resp' = Response("switch", auth, auth.err, NoJWT)
            /\ UNCHANGED <<redis, pc, call>>
       ELSE IF auth.tk.OrganisationUUID = organisationID
       THEN /\ resp' = [Response("switch", auth, NoError, tokenHeader[2])
                         EXCEPT !.in = <<organisationID>>]
            /\ UNCHANGED <<redis, pc, call>>
       ELSE IF SwitchCheck(auth.tk, organisationID) # NoError
       THEN /\ resp' = [Response("switch", auth,
                                 SwitchCheck(auth.tk, organisationID), NoJWT)
                         EXCEPT !.in = <<organisationID>>]
            /\ UNCHANGED <<redis, pc, call>>
       ELSE \E setOK \in BOOLEAN :
            /\ redis' = JWTStored(redis, auth.tk.UserUUID, organisationID, setOK)
            /\ IF setOK
               THEN /\ pc' = [pc EXCEPT ![p] = "del"]
                    /\ call' = [call EXCEPT ![p] =
                                    [auth |-> auth, organisationID |-> organisationID,
                                     jwt |-> NewJWTString(auth.tk.UserUUID, organisationID)]]
                    /\ UNCHANGED resp
               ELSE /\ resp' = [SwitchAnswer(auth, organisationID, FALSE, TRUE)
                                 EXCEPT !.in = <<organisationID>>]
                    /\ UNCHANGED <<pc, call>>
    /\ user_activity' = IF pc'[p] = "del" THEN user_activity
                        ELSE ContextActivities(resp', ActivityTypeSwitchOrganisation)
    /\ UNCHANGED <<contact, now, ticks, user, organisation_user>>

\* "remove previous token from redis": Del of the key of the pair the
\* presented token names, and the answer
SwitchDel(p) ==
    /\ pc[p] = "del"
    /\ \E delOK \in BOOLEAN :
        /\ redis' = IF delOK
                    THEN RedisDel(redis, SessionKey(call[p].auth.tk.UserUUID,
                                                    call[p].auth.tk.OrganisationUUID))
                    ELSE redis
        /\ resp' = [Response("switch", call[p].auth,
                             IF delOK THEN NoError ELSE NewRedisError("Del token failure"),
                             IF delOK THEN call[p].jwt ELSE NoJWT)
                     EXCEPT !.in = <<call[p].organisationID>>]
    /\ pc' = [pc EXCEPT ![p] = "idle"]
    /\ call' = [call EXCEPT ![p] = NoCall]
    /\ user_activity' = ContextActivities(resp', ActivityTypeSwitchOrganisation)
    /\ UNCHANGED <<contact, now, ticks, user, organisation_user>>

\* ------------------------------------------------------- membership removal
\* OrganisationUser.Delete: the key of the pair is deleted from redis, then
\* the row with the struct's ID from the database; delOK and dbOK are the
\* outcomes of the two commands
Delete(orgUser) ==
    \E delOK, dbOK \in BOOLEAN :
    /\ IF orgUser.ID = ""
       THEN /\ resp' = Asked(Response("Delete", Served(NoJWT),
                                      NewInvalidFieldError("id", "Invalid organisation user id"),
                                      NoJWT),
                             <<orgUser.UserID, orgUser.OrganisationID>>)
            /\ UNCHANGED <<redis, organisation_user>>
       ELSE IF ~delOK
       THEN /\ resp' = Asked(Response("Delete", Served(NoJWT),
                                      NewRedisError("Del token failure"), NoJWT),
                             <<orgUser.UserID, orgUser.OrganisationID>>)
            /\ UNCHANGED <<redis, organisation_user>>
       ELSE /\ redis' = RedisDel(redis, SessionKey(orgUser.UserID, orgUser.OrganisationID))
            /\ organisation_user' =
                    IF dbOK THEN {m \in organisation_user : m.ID # orgUser.ID}
                    ELSE organisation_user
            /\ resp' = Asked(Response("Delete", Served(NoJWT),
                                      IF ~dbOK
                                      THEN NewDatabaseError("Error deleting organisation user")
                                      ELSE IF \A m \in organisation_user : m.ID # orgUser.ID
                                      THEN NewInvalidFieldError("organisation_id, user_id",
                                                                "Organisation User doesn't exist")
                                      ELSE NoError,
                                      NoJWT),
                             <<orgUser.UserID, orgUser.OrganisationID>>)
    /\ user_activity' = <<>>
    /\ UNCHANGED <<contact, now, ticks, user, pc, call>>

\* ---------------------------------------------------------- specifications
\* the sign-in API (send_otp, verify_otp, switch): requests are served one
\* at a time
Next ==
    \/ \E d \in CodeTickSteps : Tick(d)
    \/ \E u \in UserIDs \cup {UnknownUUID}, type \in OtpTypes : SendCodeHandler(u, type)
    \/ \E u \in UserIDs \cup {UnknownUUID}, type \in OtpTypes :
            \E code \in SubmittedCodes(type) : VerifyCodeHandler(u, type, code)
    \/ \E h \in SwitchHeaders, o \in OrganisationIDs : ChangeOrganisationHandler(h, o)

Spec == Init /\ [][Next]_vars

\* the pairs GenerateJWTString is called for
IssuePairs == {<<"u1", "o1">>, <<"u1", "o2">>, <<"u2", "">>}

\* the session token service called as a library: Issue, Validate, Revoke
NextToken ==
    \/ \E d \in TokenTickSteps : Tick(d)
    \/ \E pair \in IssuePairs : GenerateJWTString(pair[1], pair[2])
    \/ \E rq \in Requests : Request(rq[1], rq[2])
    \/ \E h \in SwitchHeaders, o \in OrganisationIDs : ChangeOrganisationHandler(h, o)

SpecToken == InitToken /\ [][NextToken]_vars

\* concurrent calls of GenerateJWTString
NextConc ==
    \/ \E d \in TokenTickSteps : Tick(d)
    \/ \E p \in Procs, pair \in IssuePairs : GenIssuedAt(p, pair[1], pair[2])
    \/ \E p \in Procs : GenExpiresAt(p)
    \/ \E p \in Procs : GenSet(p)

SpecConc == Init /\ [][NextConc]_vars

\* the users of the two-factor sign-in: u1 signed up with the reference key
\* of o1 and was invited to o2; u2 is verified, has a public-key credential
\* and signed up again with the reference key of o1; u3 is verified, has a
\* phone and no organisation
SignInUserIDs == {"u1", "u2", "u3"}

InitSignIn ==
    /\ now = 0
    /\ ticks = 0
    /\ redis = <<>>
    /\ user = [u \in SignInUserIDs |->
                CASE u = "u1" ->
                        [Role |-> UserRoleUser, Status |-> UserStatusUnverified,
                         LoginEmail |-> TRUE, LoginPhone |-> TRUE, LoginWebAuthn |-> ""]
                  [] u = "u2" ->
                        [Role |-> UserRoleUser, Status |-> UserStatusVerified,
                         LoginEmail |-> TRUE, LoginPhone |-> FALSE,
                         LoginWebAuthn |-> "credential"]
                  [] OTHER ->
                        [Role |-> UserRoleUser, Status |-> UserStatusVerified,
                         LoginEmail |-> FALSE, LoginPhone |-> TRUE, LoginWebAuthn |-> ""]]
    /\ organisation_user =
        {[ID |-> "m1", OrganisationID |-> "o1", UserID |-> "u1",
          OrganisationRole |-> OrganisationRoleUser, IsHome |-> FALSE,
          Status |-> OrganisationUserStatusUnverified],
         [ID |-> "m2", OrganisationID |-> "o2", UserID |-> "u1",
          OrganisationRole |-> OrganisationRoleUser, IsHome |-> FALSE,
          Status |-> OrganisationUserStatusInvited],
         [ID |-> "m3", OrganisationID |-> "o1", UserID |-> "u2",
          OrganisationRole |-> OrganisationRoleUser, IsHome |-> FALSE,
          Status |-> OrganisationUserStatusUnverified]}
    /\ contact = Contacts(user)
    /\ user_activity = <<>>
    /\ resp = NoResponse
    /\ pc = [p \in Procs |-> "idle"]
    /\ call = [p \in Procs |-> NoCall]

\* the uuids a code is asked for (the other users use the phone provider's)
CodeRecipients == {"u2", UnknownUUID}

\* the identifiers of the sign-in requests: a known and an unknown e-mail
\* address, a known and an unknown phone number, and none
SignInIdentifiers ==
    {<<"email", ContactEmail("u2")>>, <<"email", ContactEmail(UnknownUUID)>>,
     <<"phone", ContactPhone("u3")>>, <<"phone", ContactPhone(UnknownUUID)>>,
     <<"", "">>}

\* the otp types of the two-factor sign-in
SignInTypes == {"email", "phone"}

\* the two-factor sign-in: signin, send_otp, verify_otp and FinishLogin
NextSignIn ==
    \/ \E d \in CodeTickSteps : Tick(d)
    \/ \E u \in CodeRecipients, type \in SignInTypes : SendCodeHandler(u, type)
    \/ \E u \in SignInUserIDs, type \in SignInTypes :
            \E code \in SubmittedCodes(type) : VerifyCodeHandler(u, type, code)
    \/ \E id \in SignInIdentifiers : GetUserHandler(id[1], id[2])
    \/ \E u \in SignInUserIDs \cup {UnknownUUID} : GetUserWebAuthnHandler(u)

SpecSignIn == InitSignIn /\ [][NextSignIn]_vars

\* the users of the core: u1 signed up with the reference key of o1 and was
\* invited to o2; u2 is verified, has a public-key credential and was
\* invited to o1
CoreUserIDs == {"u1", "u2"}

InitCore ==
    /\ now = 0
    /\ ticks = 0
    /\ redis = <<>>
    /\ user = [u \in CoreUserIDs |->
                IF u = "u1"
                THEN [Role |-> UserRoleUser, Status |-> UserStatusUnverified,
                      LoginEmail |-> TRUE, LoginPhone |-> TRUE, LoginWebAuthn |-> ""]
                ELSE [Role |-> UserRoleUser, Status |-> UserStatusVerified,
                      LoginEmail |-> TRUE, LoginPhone |-> TRUE,
                      LoginWebAuthn |-> "credential"]]
    /\ organisation_user =
        {[ID |-> "m1", OrganisationID |-> "o1", UserID |-> "u1",
          OrganisationRole |-> OrganisationRoleUser, IsHome |-> FALSE,
          Status |-> OrganisationUserStatusUnverified],
         [ID |-> "m2", OrganisationID |-> "o2", UserID |-> "u1",
          OrganisationRole |-> OrganisationRoleUser, IsHome |-> FALSE,
          Status |-> OrganisationUserStatusInvited],
         [ID |-> "m3", OrganisationID |-> "o1", UserID |-> "u2",
          OrganisationRole |-> OrganisationRoleUser, IsHome |-> FALSE,
          Status |-> OrganisationUserStatusInvited]}
    /\ contact = Contacts(user)
    /\ user_activity = <<>>
    /\ resp = NoResponse
    /\ pc = [p \in Procs |-> "idle"]
    /\ call = [p \in Procs |-> NoCall]

\* the requests of the sign-up <<platform, email, reference key, webauthn>>:
\* the e-mail address of the verified user u2 with the key of either
\* organisation, a new address with a public-key registration, and a
\* request without the key that p2p requires
SignUpRequests ==
    {<<PlatformP2P, ContactEmail("u2"), ReferenceKey(o), FALSE>> : o \in OrganisationIDs}
    \cup {<<PlatformP2P, SignUpEmail, ReferenceKey("o1"), TRUE>>,
          <<PlatformP2P, SignUpEmail, "", FALSE>>}

\* the headers of the switch requests of the core: the registered tokens of u1
CoreSwitchHeaders == {Bearer(t) : t \in {x \in StoredTokens : x.UserUUID = "u1"}}

\* the core: sign-up, two-factor sign-in over the phone and switch
NextCore ==
    \/ \E d \in CodeTickSteps : Tick(d)
    \/ \E rq \in SignUpRequests : CreateUserHandler(rq[1], rq[2], rq[3], rq[4])
    \/ \E u \in NewUserIDs : CreateUserWebAuthnHandler(u)
    \/ \E u \in CoreUserIDs : SendCodeHandler(u, "phone")
    \/ \E u \in CoreUserIDs : VerifyCodeHandler(u, "phone", "")
    \/ \E u \in CoreUserIDs : GetUserWebAuthnHandler(u)
    \/ \E h \in CoreSwitchHeaders : ChangeOrganisationHandler(h, "o2")

SpecCore == InitCore /\ [][NextCore]_vars

\* the directory of the home selection: u1 signed up with the reference key
\* of o1; u2 is verified and at home in o1, as its admin
InitHome ==
    /\ now = 0
    /\ ticks = 0
    /\ redis = <<>>
    /\ user = [u \in CoreUserIDs |->
                IF u = "u1"
                THEN [Role |-> UserRoleUser, Status |-> UserStatusUnverified,
                      LoginEmail |-> TRUE, LoginPhone |-> TRUE, LoginWebAuthn |-> ""]
                ELSE [Role |-> UserRoleUser, Status |-> UserStatusVerified,
                      LoginEmail |-> TRUE, LoginPhone |-> TRUE, LoginWebAuthn |-> ""]]
    /\ organisation_user =
        {[ID |-> "m1", OrganisationID |-> "o1", UserID |-> "u1",
          OrganisationRole |-> OrganisationRoleUser, IsHome |-> FALSE,
          Status |-> OrganisationUserStatusUnverified],
         [ID |-> "m3", OrganisationID |-> "o1", UserID |-> "u2",
          OrganisationRole |-> OrganisationRoleAdmin, IsHome |-> TRUE,
          Status |-> OrganisationUserStatusActive]}
    /\ contact = Contacts(user)
    /\ user_activity = <<>>
    /\ resp = NoResponse
    /\ pc = [p \in Procs |-> "idle"]
    /\ call = [p \in Procs |-> NoCall]

\* the invitations <<email, organisation>>: of the verified user u2 and of a
\* new address
Invitations ==
    {<<ContactEmail("u2"), o>> : o \in OrganisationIDs} \cup {<<SignUpEmail, "o2">>}

\* the process that runs SetHomeOrganisation
HomeProc == 1

\* sign-up, invitation, the resolver run by verify_otp, and a home
\* re-selection that runs step by step between them
NextHome ==
    \/ CreateUserHandler(PlatformP2P, ContactEmail("u2"), ReferenceKey("o2"), FALSE)
    \/ \E inv \in Invitations : CreateInvitedUser(inv[1], inv[2])
    \/ \E u \in CoreUserIDs : VerifyCodeHandler(u, "phone", "")
    \/ \E m \in organisation_user : SetHomeFind(HomeProc, m)
    \/ SetHomeLoop(HomeProc)

SpecHome == InitHome /\ [][NextHome]_vars

\* the users of the public-key challenges: u2 has a credential, u4 is the
\* user sign-up creates
ChallengeUserIDs == {"u2", "u4"}

\* the steps of the clock within and beyond the life of a challenge
ChallengeTickSteps == {1, CodeTTL}

\* public-key registration and login: Begin (sign-up with the public-key
\* flag, verify_otp of a user with a credential) and Finish
NextChallenge ==
    \/ \E d \in ChallengeTickSteps : Tick(d)
    \/ \E email \in {ContactEmail("u2"), SignUpEmail} :
            CreateUserHandler(PlatformP2P, email, ReferenceKey("o1"), TRUE)
    \/ \E u \in ChallengeUserIDs : CreateUserWebAuthnHandler(u)
    \/ \E u \in ChallengeUserIDs : VerifyCodeHandler(u, "phone", "")
    \/ \E u \in ChallengeUserIDs : GetUserWebAuthnHandler(u)

SpecChallenge == InitCore /\ [][NextChallenge]_vars

\* the directory of the one-time code round trip: u1 is verified, signs in
\* by e-mail, has no phone contact and is at home in o1; u3 is verified and
\* has a phone contact only
InitOtp ==
    /\ now = 0
    /\ ticks = 0
    /\ redis = <<>>
    /\ user = [u \in {"u1", "u3"} |->
                [Role |-> UserRoleUser, Status |-> UserStatusVerified,
                 LoginEmail |-> (u = "u1"), LoginPhone |-> (u = "u3"),
                 LoginWebAuthn |-> ""]]
    /\ organisation_user =
        {[ID |-> "m1", OrganisationID |-> "o1", UserID |-> "u1",
          OrganisationRole |-> OrganisationRoleUser, IsHome |-> TRUE,
          Status |-> OrganisationUserStatusActive]}
    /\ contact = Contacts(user)
    /\ user_activity = <<>>
    /\ resp = NoResponse
    /\ pc = [p \in Procs |-> "idle"]
    /\ call = [p \in Procs |-> NoCall]

\* the one-time code requests <<uuid, type>>: u1 is also named with a space
\* after the id; u1 has no phone contact, u3 no e-mail contact
OtpRequests ==
    {<<"u1", "email">>, <<"u1 ", "email">>, <<"u1", "phone">>, <<"u3", "email">>}

\* the one-time code round trip with its delivery
NextOtp ==
    \/ Tick(1)
    \/ \E p \in Procs, rq \in OtpRequests : SendCodeGo(p, rq[1], rq[2])
    \/ \E p \in Procs : SendCodeDeliver(p)
    \/ \E rq \in OtpRequests :
            \E code \in SubmittedCodes(rq[2]) : VerifyCodeHandler(rq[1], rq[2], code)

SpecOtp == InitOtp /\ [][NextOtp]_vars

\* sign-up without and with a reference key, verification over the phone
\* and GetInfo with a registered token or without a token
NextInfo ==
    \/ Tick(1)
    \/ \E key \in {"", ReferenceKey("o2")} :
            CreateUserHandler(PlatformTrading, SignUpEmail, key, FALSE)
    \/ \E u \in {"u1", "u3", "u4"} : VerifyCodeHandler(u, "phone", "")
    \/ \E h \in {<<>>} \cup {Bearer(t) : t \in StoredTokens} : GetInfo(h)

SpecInfo == InitOtp /\ [][NextInfo]_vars

\* the sign-up requests <<platform, email, reference key>> of the cleanup:
\* the address of the verified user u2 or a new address, with and without
\* the key of an organisation
CleanupRequests ==
    {<<platform, email, key>> :
        platform \in {PlatformP2P, PlatformTrading},
        email \in {ContactEmail("u2"), SignUpEmail},
        key \in {"", ReferenceKey("o1"), ReferenceKey("o2")}}

\* repeated sign-up and verification over the phone; u1 has signed up before
\* with an address of its own and has not verified
NextSignUp ==
    \/ Tick(1)
    \/ \E rq \in CleanupRequests : CreateUserHandler(rq[1], rq[2], rq[3], FALSE)
    \/ \E u \in {"u1", "u4", "u5"} : VerifyCodeHandler(u, "phone", "")

SpecSignUp == InitHome /\ [][NextSignUp]_vars

\* the verify_otp requests <<uuid, type>> of the second factor: over the
\* phone, or without a type
VerifyRequests == {<<u, type>> : u \in {"u1", "u4"}, type \in {"phone", ""}}

\* sign-up into o2, which has no admin, verify_otp in both forms of the
\* handler and a FinishLogin of a user without a login session; u1 has
\* signed up into o1 and has not verified
NextVerify ==
    \/ Tick(1)
    \/ CreateUserHandler(PlatformP2P, SignUpEmail, ReferenceKey("o2"), FALSE)
    \/ \E rq \in VerifyRequests : VerifyCodeHandler(rq[1], rq[2], "")
    \/ \E rq \in VerifyRequests : VerifyCodeHandlerResolveFirst(rq[1], rq[2], "")
    \/ GetUserWebAuthnHandler("u1")

SpecVerify == InitHome /\ [][NextVerify]_vars

\* the directory of two sign-ups into organisations without admin: u1 and
\* u2 signed up with the reference key of o1, u1 also with that of o2, and
\* neither has verified
InitResolver ==
    /\ now = 0
    /\ ticks = 0
    /\ redis = <<>>
    /\ user = [u \in CoreUserIDs |->
                [Role |-> UserRoleUser, Status |-> UserStatusUnverified,
                 LoginEmail |-> TRUE, LoginPhone |-> TRUE, LoginWebAuthn |-> ""]]
    /\ organisation_user =
        {[ID |-> "m1", OrganisationID |-> "o1", UserID |-> "u1",
          OrganisationRole |-> OrganisationRoleUser, IsHome |-> FALSE,
          Status |-> OrganisationUserStatusUnverified],
         [ID |-> "m2", OrganisationID |-> "o2", UserID |-> "u1",
          OrganisationRole |-> OrganisationRoleUser, IsHome |-> FALSE,
          Status |-> OrganisationUserStatusUnverified],
         [ID |-> "m3", OrganisationID |-> "o1", UserID |-> "u2",
          OrganisationRole |-> OrganisationRoleUser, IsHome |-> FALSE,
          Status |-> OrganisationUserStatusUnverified]}
    /\ contact = Contacts(user)
    /\ user_activity = <<>>
    /\ resp = NoResponse
    /\ pc = [p \in Procs |-> "idle"]
    /\ call = [p \in Procs |-> NoCall]

\* resolver runs of two requests, for either user, in any interleaving
NextResolver ==
    \/ \E p \in Procs, u \in CoreUserIDs : ResolverLoad(p, u)
    \/ \E p \in Procs : ResolverFindAdmin(p)
    \/ \E p \in Procs : ResolverActivate(p)

SpecResolver == InitResolver /\ [][NextResolver]_vars

\* a switch of u1 to o2 served statement by statement while sign-ins and
\* other switches of u1 are served
NextSwitch ==
    \/ Tick(1)
    \/ \E o \in OrganisationIDs : GenerateJWTString("u1", o)
    \/ \E p \in Procs, h \in CoreSwitchHeaders : SwitchIssue(p, h, "o2")
    \/ \E p \in Procs : SwitchDel(p)
    \/ \E h \in CoreSwitchHeaders : ChangeOrganisationHandler(h, "o1")

SpecSwitch == Init /\ [][NextSwitch]_vars

\* the structs Delete is called on: the rows of the table, and the row m1
\* of u1 in o1 whether it is still there or not
DeletedOrgUsers ==
    organisation_user
    \cup {[ID |-> "m1", OrganisationID |-> "o1", UserID |-> "u1",
           OrganisationRole |-> OrganisationRoleUser, IsHome |-> FALSE,
           Status |-> OrganisationUserStatusUnverified]}

\* tokens are issued for the memberships of u1 and memberships are removed
NextDelete ==
    \/ Tick(1)
    \/ \E o \in OrganisationIDs : GenerateJWTString("u1", o)
    \/ \E orgUser \in DeletedOrgUsers : Delete(orgUser)

SpecDelete == Init /\ [][NextDelete]_vars

\* the Authorization headers of the audited requests: none, or a registered
\* token
ActivityHeaders == {<<>>} \cup {Bearer(t) : t \in StoredTokens}

\* the users who sign in for a session: u1 and u2, and the users sign-up
\* creates
SessionUserIDs == CoreUserIDs \cup NewUserIDs

\* sign-up with a new address (which removes the unverified user of the
\* address), sign-in over the phone and by public key, and switch with the
\* registered tokens of u1
NextSession ==
    \/ Tick(1)
    \/ CreateUserHandler(PlatformTrading, SignUpEmail, "", FALSE)
    \/ \E u \in SessionUserIDs \cup {UnknownUUID} : VerifyCodeHandler(u, "phone", "")
    \/ GetUserWebAuthnHandler("u2")
    \/ \E h \in CoreSwitchHeaders, o \in OrganisationIDs : ChangeOrganisationHandler(h, o)

SpecSession == InitCore /\ [][NextSession]_vars

\* every handler that records an activity: sign-up, sign-in, send_otp,
\* verify_otp, the public-key Finish handlers, switch and GetInfo
NextActivity ==
    \/ Tick(1)
    \/ CreateUserHandler(PlatformTrading, SignUpEmail, "", TRUE)
    \/ \E id \in {<<"email", ContactEmail("u2")>>, <<"", "">>} : GetUserHandler(id[1], id[2])
    \/ \E u \in {"u1", UnknownUUID} : SendCodeHandler(u, "phone")
    \/ \E u \in {"u1", "u2"} : VerifyCodeHandler(u, "phone", "")
    \/ CreateUserWebAuthnHandler("u4")
    \/ GetUserWebAuthnHandler("u2")
    \/ \E h \in ActivityHeaders : ChangeOrganisationHandler(h, "o2")
    \/ \E h \in ActivityHeaders : GetInfo(h)

SpecActivity == InitCore /\ [][NextActivity]_vars

\* the steps of the clock around the end of a token's life
LifeTickSteps == {1, TokenTTL - 1, TokenTTL + 1}

\* the session token service observed up to and beyond the life of a token
NextLife ==
    \/ \E d \in LifeTickSteps : Tick(d)
    \/ \E pair \in IssuePairs : GenerateJWTString(pair[1], pair[2])
    \/ \E rq \in Requests : Request(rq[1], rq[2])
    \/ \E h \in SwitchHeaders, o \in OrganisationIDs : ChangeOrganisationHandler(h, o)

SpecLife == Init /\ [][NextLife]_vars

\* ------------------------------------------------------------------ claims
\* Validate: the middleware's outcome for a request that presents token t
Validate(t) == JwtAuthenticationHandler(PathInfo, Bearer(t))

\* the failure a rejected validation stands for
FailureKind(e) ==
    CASE e = NewAccessForbiddenError("Missing auth token.") -> "MissingToken"
      [] e = NewAccessForbiddenError("Invalid/Malformed auth token.") -> "MalformedToken"
      [] e = NewAccessForbiddenError("Malformed authentication token.") -> "InvalidSignature"
      [] e = NewAccessForbiddenError("Token is not valid (not issued by the server).")
            -> "RevokedOrUnknownToken"
      [] e = NewAccessForbiddenError("Token is corrupted (not issued by the server).")
            -> "RevokedOrUnknownToken"
      [] OTHER -> "none"

\* the last request was an Issue that succeeded
IssueSucceeded == resp.op = "GenerateJWTString" /\ resp.err = NoError

\* C1: for every user u and organisation o, the empty organisation included,
\* the token a successful Issue(u, o) returned passes Validate for as long as
\* nothing else has written, deleted or expired key(u, o), and the context
\* token carries exactly the user u and the organisation o.
C1_IssueThenValidate ==
    (IssueSucceeded /\ now < resp.jwt.IssuedAt + TokenTTL)
        => /\ Validate(resp.jwt) = Served(resp.jwt)
           /\ Validate(resp.jwt).tk.UserUUID = resp.in[1]
           /\ Validate(resp.jwt).tk.OrganisationUUID = resp.in[2]

\* a token issued a second ago for a user without organisation is served
C1_Witness ==
    /\ IssueSucceeded
    /\ resp.in = <<"u2", "">>
    /\ now = resp.jwt.IssuedAt + 1
    /\ Validate(resp.jwt).next
    /\ Validate(resp.jwt).tk.OrganisationUUID = ""

\* C2: when Issue(u, o) is called twice in sequence, the token of the first
\* call fails Validate with RevokedOrUnknownToken after the second call, for
\* every timing of the two calls, two calls in the same second included.
C2_SecondIssueRevokesFirst ==
    (IssueSucceeded /\ resp.prev # NoJWT)
        => /\ ~Validate(resp.prev).next
           /\ FailureKind(Validate(resp.prev).err) = "RevokedOrUnknownToken"

\* the tokens a caller may hold: presentable ones and those of the last answer
HeldTokens == PresentableTokens \cup ({resp.jwt, resp.prev, resp.tk} \ {NoJWT})

\* C3: at no time do two different token strings for the same
\* (user, organisation) pair both pass Validate.
C3_AtMostOneValidToken ==
    \A t1, t2 \in {t \in HeldTokens : Validate(t).next} :
        (/\ t1.UserUUID = t2.UserUUID
         /\ t1.OrganisationUUID = t2.OrganisationUUID) => t1 = t2

\* of two tokens of one pair, both signed by the server and unexpired, the
\* registered one is served and the other one is rejected
C3_Witness ==
    \E t1, t2 \in HeldTokens :
        /\ ParseWithClaimsOK(t1, now) /\ ParseWithClaimsOK(t2, now)
        /\ t1 # t2
        /\ t1.UserUUID = t2.UserUUID
        /\ t1.OrganisationUUID = t2.OrganisationUUID
        /\ Validate(t1).next
        /\ FailureKind(Validate(t2).err) = "RevokedOrUnknownToken"

\* what the middleware has to answer to the header h of a request to a path
\* outside the skip prefix: the first check of its order that fails
ExpectedFailure(h) ==
    IF h = <<>> THEN "MissingToken"
    ELSE IF Len(h) # 2 THEN "MalformedToken"
    ELSE IF ~ParseWithClaimsOK(h[2], now) THEN "InvalidSignature"
    ELSE IF SessionKey(h[2].UserUUID, h[2].OrganisationUUID) \notin DOMAIN redis
        THEN "RevokedOrUnknownToken"
    ELSE IF redis[SessionKey(h[2].UserUUID, h[2].OrganisationUUID)].val # h[2]
        THEN "RevokedOrUnknownToken"
    ELSE "none"

\* C4: a request to a path outside the skip prefix reaches the next handler
\* only if the header is present, has exactly two parts, the token verifies
\* under the server's secret and equals the stored entry of its pair;
\* otherwise the request is rejected with MissingToken, MalformedToken,
\* InvalidSignature or RevokedOrUnknownToken, whichever check fails first, and
\* the next handler is not invoked.
C4_ValidationOrder ==
    /\ \A path \in {q \in Paths : ~HasPrefix(q, SkipPrefix)}, h \in Headers :
            LET out == JwtAuthenticationHandler(path, h) IN
                /\ out.next <=> ExpectedFailure(h) = "none"
                /\ FailureKind(out.err) = ExpectedFailure(h)
                /\ out.next => out.tk = h[2]
    /\ (resp.op \in {"request", "switch"} /\ FailureKind(resp.err) # "none")
            => ~resp.next /\ resp.jwt = NoJWT /\ resp.tk = NoJWT

\* a request that presented a well signed token other than the stored one
\* was rejected before the next handler
C4_Witness ==
    /\ resp.op = "request"
    /\ ~resp.next
    /\ resp.err = NewAccessForbiddenError("Token is corrupted (not issued by the server).")

\* C5: after two concurrent calls of Issue(u, o) have both returned, exactly
\* one of the two returned tokens passes Validate and the other one fails.
C5_ConcurrentIssuesOneValid ==
    (/\ pc[1] = "done" /\ pc[2] = "done"
     /\ call[1].err = NoError /\ call[2].err = NoError
     /\ call[1].UserUUID = call[2].UserUUID
     /\ call[1].OrganisationUUID = call[2].OrganisationUUID
     /\ SessionKey(call[1].UserUUID, call[1].OrganisationUUID) \in DOMAIN redis
     /\ now <= call[1].jwt.ExpiresAt /\ now <= call[2].jwt.ExpiresAt)
        => Validate(call[1].jwt).next # Validate(call[2].jwt).next

\* a step leaves every redis key outside K as it was
OtherKeysUnchanged(K) ==
    \A k \in (DOMAIN redis \cup DOMAIN redis') \ K :
        k \in DOMAIN redis /\ k \in DOMAIN redis' /\ redis'[k] = redis[k]

\* C6: Issue(u, o) changes no key but key(u, o), and a switch from (u, o1)
\* to (u, o2) changes no key but key(u, o2) and the revoked key(u, o1); so a
\* user can hold valid tokens for different organisations at the same time.
C6_IssueRevokeFrame ==
    [][ticks' = ticks =>
        /\ resp'.op = "GenerateJWTString"
            => OtherKeysUnchanged({SessionKey(resp'.in[1], resp'.in[2])})
        /\ resp'.op = "switch"
            => IF resp'.next
               THEN OtherKeysUnchanged(
                        {SessionKey(resp'.tk.UserUUID, resp'.in[1]),
                         SessionKey(resp'.tk.UserUUID, resp'.tk.OrganisationUUID)})
               ELSE redis' = redis]_vars

\* after an Issue a user holds valid tokens for two organisations
C6_Witness ==
    /\ IssueSucceeded
    /\ \E t1, t2 \in StoredTokens :
        /\ t1.UserUUID = resp.in[1] /\ t2.UserUUID = resp.in[1]
        /\ t1.OrganisationUUID = resp.in[2]
        /\ t2.OrganisationUUID # resp.in[2]
        /\ Validate(t1).next /\ Validate(t2).next
\* the IsHome flag of every OrganisationUser row
HomeFlags(rows) == {<<m.ID, m.IsHome>> : m \in rows}

\* the errors of a switch whose redis writes fail
SwitchStoreErrors ==
    {NewRedisError("Set token failure"), NewRedisError("Del token failure")}

\* C7: a user with OrganisationUser rows for X and Y who presents a valid
\* token of (user, X) to the switch to Y receives a token that passes
\* Validate as (user, Y); the token of (user, X) fails Validate afterwards;
\* no row's IsHome flag changes.
C7_SwitchMovesSession ==
    [][(/\ ticks' = ticks
        /\ resp'.op = "switch"
        /\ resp'.next
        /\ resp'.tk.OrganisationUUID # resp'.in[1]
        /\ FindOrgUser(organisation_user, resp'.tk.OrganisationUUID,
                       resp'.tk.UserUUID) # {}
        /\ FindOrgUser(organisation_user, resp'.in[1], resp'.tk.UserUUID) # {})
        => /\ resp'.err \in {NoError} \cup SwitchStoreErrors
           /\ HomeFlags(organisation_user') = HomeFlags(organisation_user)
           /\ resp'.err = NoError
                => /\ \E t \in StoredTokens' :
                        /\ t = resp'.jwt
                        /\ t.UserUUID = resp'.tk.UserUUID
                        /\ t.OrganisationUUID = resp'.in[1]
                        /\ Validate(t)' = Served(t)
                   /\ \E old \in StoredTokens :
                        /\ old = resp'.tk
                        /\ Validate(old) = Served(old)
                        /\ ~(Validate(old).next)'
                        /\ FailureKind(Validate(old).err)' = "RevokedOrUnknownToken"]_vars

\* a user signed in to the home organisation has switched to another one:
\* the new token is served, the old one is not, the home row is the old one
C7_Witness ==
    /\ resp.op = "switch"
    /\ resp.err = NoError
    /\ resp.tk.OrganisationUUID # resp.in[1]
    /\ resp.jwt.OrganisationUUID = resp.in[1]
    /\ Validate(resp.jwt).next
    /\ ~Validate(resp.tk).next
    /\ \E m \in organisation_user :
        /\ m.UserID = resp.tk.UserUUID
        /\ m.OrganisationID = resp.tk.OrganisationUUID
        /\ m.IsHome

\* the error of a switch by a caller without an OrganisationUser row
NotAMember ==
    NewOrganisationUserDoesntExistError(
        "Organisation User with provided parameters doesn't exist")

\* C8: the switch to a target organisation by a caller who is no platform
\* admin and has no OrganisationUser row for the target fails with
\* NotAMember: no token is issued, the store and the rows are unchanged and
\* the caller's token stays valid. A platform admin is allowed to switch to
\* any target without a row.
C8_SwitchNeedsMembership ==
    [][(/\ ticks' = ticks
        /\ resp'.op = "switch"
        /\ resp'.next
        /\ UserExists(resp'.tk.UserUUID)
        /\ FindOrgUser(organisation_user, resp'.in[1], resp'.tk.UserUUID) = {})
        => IF user[resp'.tk.UserUUID].Role # UserRoleAdmin
           THEN /\ resp'.err = NotAMember
                /\ resp'.jwt = NoJWT
                /\ redis' = redis
                /\ organisation_user' = organisation_user
                /\ \E old \in StoredTokens :
                        old = resp'.tk /\ Validate(old)' = Served(old)
           ELSE /\ resp'.err \in {NoError} \cup SwitchStoreErrors
                /\ resp'.err = NoError
                    => \E t \in StoredTokens' :
                        /\ t = resp'.jwt
                        /\ t.UserUUID = resp'.tk.UserUUID
                        /\ t.OrganisationUUID = resp'.in[1]
                        /\ Validate(t)' = Served(t)]_vars

\* a caller with a valid token was refused the switch as no member
C8_Witness ==
    /\ resp.op = "switch"
    /\ resp.err = NotAMember
    /\ resp.jwt = NoJWT
    /\ user[resp.tk.UserUUID].Role # UserRoleAdmin
    /\ Validate(resp.tk).next
\* the code stored for a user is code
CodeStored(UUID, code) ==
    /\ GenerateRedisKey(UUID, KeySignUp) \in DOMAIN redis
    /\ redis[GenerateRedisKey(UUID, KeySignUp)].val = CodeValue(code)

\* C9: after Send(u, email) stored the code c, the first Verify(u, email, c)
\* within the life of the code succeeds, and it succeeds exactly once: a
\* later Verify with the same code and no Send in between does not succeed.
C9_CodeAcceptedOnce ==
    [][/\ \A u \in UserIDs, c \in Codes :
            (/\ resp'.op = "verify_otp" /\ resp'.in = <<u, "email">>
             /\ CodeStored(u, c)
             /\ VerifyCodeHandler(u, "email", c))
                => resp'.err \in {NoError, NewRedisError("Set token failure")}
       /\ ~(/\ resp'.op = "verify_otp"
            /\ resp'.in[2] = "email"
            /\ resp'.err = NoError
            /\ resp'.prev # NoJWT)]_vars

\* what a Verify that is refused leaves as it was
VerifyRefused ==
    /\ resp'.jwt = NoJWT
    /\ redis' = redis
    /\ user' = user
    /\ organisation_user' = organisation_user

\* C10: Verify(u, email, c) fails with CodeExpiredOrUnknown when no code is
\* stored for u (never sent, or sent more than five minutes ago) and with
\* CodeMismatch when the stored code differs from c; in both cases no token
\* is written and the stored code and the user's status are unchanged.
C10_VerifyRefusals ==
    [][\A u \in UserIDs, c \in Codes \cup {""} :
        (/\ resp'.op = "verify_otp" /\ resp'.in = <<u, "email">>
         /\ VerifyCodeHandler(u, "email", c))
            => IF GenerateRedisKey(u, KeySignUp) \notin DOMAIN redis
               THEN resp'.err = NewRedisError("Get code failure") /\ VerifyRefused
               ELSE IF ~CodeStored(u, c)
               THEN resp'.err = SecureErrorResponse /\ VerifyRefused
               ELSE resp'.err # NewRedisError("Get code failure")
                    /\ resp'.err # SecureErrorResponse]_vars

\* a code was sent, its life has passed, and a Verify found no code; another
\* user's Verify with a wrong code would be a mismatch
C10_Witness ==
    /\ resp.op = "verify_otp"
    /\ resp.in[2] = "email"
    /\ resp.err = NewRedisError("Get code failure")
    /\ now >= CodeTTL
    /\ user[resp.in[1]].Status = UserStatusUnverified
    /\ \E u \in UserIDs, c \in Codes : u # resp.in[1] /\ CodeStored(u, c)

\* the session keys of a user, and the key of the user's login challenge
SessionKeysOf(u) == {SessionKey(u, o) : o \in OrganisationIDs \cup {""}}
ChallengeKey(u) == GenerateRedisKey(u, KeyWebAuthnLogin)

\* redis key k is written by the step (set, or set again)
Written(k) == k \in DOMAIN redis' /\ (k \notin DOMAIN redis \/ redis'[k] # redis[k])

\* the step is the handler op answering user u without an error
Succeeds(op, u) ==
    /\ ticks' = ticks
    /\ resp'.op = op
    /\ resp'.in[1] = u
    /\ resp'.err = NoError

\* C11: a session token is issued for a user only after a second factor.
\* For a user with a public-key credential a successful verify_otp answers
\* no token, leaves the tables user and organisation_user alone and stores
\* nothing but the login challenge; a token of that user is answered and
\* stored only by a successful FinishLogin, which finds a login challenge
\* that is less than 5 minutes old, and a login challenge is stored only by
\* a successful verify_otp. For a user without a credential the successful
\* verify_otp answers and stores the token.
C11_TokenAfterSecondFactor ==
    [][\A u \in DOMAIN user :
        /\ (Succeeds("verify_otp", u) /\ user[u].LoginWebAuthn # "" =>
                /\ resp'.jwt = NoJWT
                /\ UNCHANGED <<user, organisation_user>>
                /\ redis' = RedisSet(redis, ChallengeKey(u), LoginSession(u), CodeTTL))
        /\ (Succeeds("verify_otp", u) /\ user[u].LoginWebAuthn = "" =>
                /\ resp'.jwt # NoJWT
                /\ resp'.jwt.UserUUID = u
                /\ \E k \in SessionKeysOf(u) :
                        k \in DOMAIN redis' /\ redis'[k].val = resp'.jwt)
        /\ (Succeeds("finish_login", u) =>
                /\ resp'.jwt # NoJWT
                /\ resp'.jwt.UserUUID = u
                /\ ChallengeKey(u) \in DOMAIN redis
                /\ redis[ChallengeKey(u)].val = LoginSession(u)
                /\ now < redis[ChallengeKey(u)].expireAt
                /\ now - (redis[ChallengeKey(u)].expireAt - CodeTTL) < CodeTTL)
        /\ (Written(ChallengeKey(u)) =>
                Succeeds("verify_otp", u) /\ user[u].LoginWebAuthn # "")
        /\ \A k \in SessionKeysOf(u) :
                Written(k) =>
                    \/ Succeeds("verify_otp", u) /\ user[u].LoginWebAuthn = ""
                    \/ Succeeds("finish_login", u) /\ user[u].LoginWebAuthn # ""
    ]_vars

\* FinishLogin answered the credentialed user u2 a token
C11_Witness ==
    /\ resp.op = "finish_login"
    /\ resp.in = <<"u2">>
    /\ resp.jwt # NoJWT
    /\ user["u2"].LoginWebAuthn # ""
    /\ \E k \in SessionKeysOf("u2") : k \in DOMAIN redis /\ redis[k].val = resp.jwt

\* the step is a sign-in of user u that completed the second factor (the
\* resolver ran): verify_otp for a user without credential, or FinishLogin,
\* ending with the token or with the failure to store it
SecondFactorDone(u) ==
    /\ ticks' = ticks
    /\ \/ resp'.op = "verify_otp" /\ user[u].LoginWebAuthn = ""
       \/ resp'.op = "finish_login"
    /\ resp'.in[1] = u
    /\ resp'.err \in {NoError, NewRedisError("Set token failure")}

\* the OrganisationUser row with the id of m after the step
RowAfter(m) == CHOOSE n \in organisation_user' : n.ID = m.ID

\* C12: when a user completes a second factor during sign-in, every
\* unverified membership of the user is active and the user is verified by
\* the time the token is issued (also when storing the token then fails);
\* memberships that were active keep status and role.
C12_SecondFactorActivates ==
    [][\A u \in DOMAIN user :
        SecondFactorDone(u) =>
            /\ user'[u].Status = UserStatusVerified
            /\ \A m \in OrgUsersOf(u) :
                /\ \E n \in organisation_user' : n.ID = m.ID
                /\ m.Status = OrganisationUserStatusUnverified =>
                        RowAfter(m).Status = OrganisationUserStatusActive
                /\ m.Status = OrganisationUserStatusActive =>
                        /\ RowAfter(m).Status = OrganisationUserStatusActive
                        /\ RowAfter(m).OrganisationRole = m.OrganisationRole
            /\ resp'.err = NoError => resp'.jwt # NoJWT
    ]_vars

\* u1 repeated the sign-in and got a token: both memberships were there,
\* the one in o1 already active
C12_Witness ==
    /\ resp.op = "verify_otp"
    /\ resp.in[1] = "u1"
    /\ resp.jwt # NoJWT
    /\ resp.prev # NoJWT
    /\ user["u1"].Status = UserStatusVerified
    /\ \E m \in OrgUsersOf("u1") :
            m.ID = "m1" /\ m.Status = OrganisationUserStatusActive

\* the active admins of organisation o among rows
ActiveAdmins(rows, o) ==
    {m \in rows : /\ m.OrganisationID = o
                  /\ m.OrganisationRole = OrganisationRoleAdmin
                  /\ m.Status = OrganisationUserStatusActive}

\* C13: a membership of organisation o that the resolver activates gets
\* role admin if and only if o has no active admin at that moment, and role
\* user otherwise; of the users who complete verification for an admin-less
\* organisation one after another the first becomes admin, the later ones
\* regular (the organisation never has two active admins).
C13_FirstVerifiedIsAdmin ==
    [][\A u \in DOMAIN user :
        SecondFactorDone(u) =>
            /\ \A m \in OrgUsersOf(u) :
                    m.Status = OrganisationUserStatusUnverified =>
                        /\ RowAfter(m).Status = OrganisationUserStatusActive
                        /\ RowAfter(m).OrganisationRole = OrganisationRoleAdmin
                                <=> ActiveAdmins(organisation_user, m.OrganisationID) = {}
                        /\ RowAfter(m).OrganisationRole = OrganisationRoleUser
                                <=> ActiveAdmins(organisation_user, m.OrganisationID) # {}
            /\ \A o \in OrganisationIDs :
                    Cardinality(ActiveAdmins(organisation_user', o)) <= 1
    ]_vars

\* u1 completed verification for o1 first and is its admin; u2 has just
\* finished the login and is a regular member
C13_Witness ==
    /\ resp.op = "finish_login"
    /\ resp.in[1] = "u2"
    /\ resp.jwt # NoJWT
    /\ \E m \in OrgUsersOf("u1") :
            /\ m.OrganisationID = "o1"
            /\ m.Status = OrganisationUserStatusActive
            /\ m.OrganisationRole = OrganisationRoleAdmin
    /\ \E m \in OrgUsersOf("u2") :
            /\ m.OrganisationID = "o1"
            /\ m.Status = OrganisationUserStatusActive
            /\ m.OrganisationRole = OrganisationRoleUser

\* the step ran the resolver for user u, who had no row with IsHome
ResolverRanHomeless(u) ==
    /\ SecondFactorDone(u)
    /\ \A m \in OrgUsersOf(u) : ~m.IsHome

\* after the step exactly one row of u has IsHome, and u's rows are the
\* same rows otherwise: none added, none removed, no other flag changed
OneHomeChosen(u) ==
    /\ Cardinality({n \in OrgUsersOf(u)' : n.IsHome}) = 1
    /\ {n.ID : n \in OrgUsersOf(u)'} = {m.ID : m \in OrgUsersOf(u)}
    /\ \A m \in OrgUsersOf(u) :
            /\ RowAfter(m).UserID = m.UserID
            /\ RowAfter(m).OrganisationID = m.OrganisationID
    /\ Cardinality({m \in OrgUsersOf(u) : RowAfter(m).IsHome # m.IsHome}) = 1
    /\ \A m \in organisation_user \ OrgUsersOf(u) : m \in organisation_user'

\* C15 as stated: for all users with no is_home membership, after the
\* resolver ran once exactly one membership of the user has is_home and the
\* user's memberships are otherwise unchanged. (Fails for a user without
\* any membership.)
C15_ResolverSetsOneHome ==
    [][\A u \in DOMAIN user : ResolverRanHomeless(u) => OneHomeChosen(u)]_vars

\* C15 amended: for all users with at least one membership and no is_home
\* membership, after the resolver ran once exactly one membership of the
\* user has is_home and the user's memberships are otherwise unchanged; for
\* a user without membership the resolver creates none.
C15_ResolverSetsOneHomeOfMember ==
    [][\A u \in DOMAIN user :
        ResolverRanHomeless(u) =>
            IF OrgUsersOf(u) # {} THEN OneHomeChosen(u)
            ELSE organisation_user' = organisation_user
    ]_vars

\* u1 signed in for the first time: one of the two memberships is the home
C15_Witness ==
    /\ resp.op = "verify_otp"
    /\ resp.in[1] = "u1"
    /\ resp.err = NoError
    /\ resp.prev = NoJWT
    /\ Cardinality(OrgUsersOf("u1")) = 2
    /\ Cardinality({m \in OrgUsersOf("u1") : m.IsHome}) = 1
    /\ Cardinality({m \in organisation_user : m.IsHome}) = 1

\* C17: the token issued when sign-in completes (verify_otp or FinishLogin)
\* is scoped to the user's home organisation: its OrganisationUUID is the
\* organisation of the row that has IsHome after the resolver ran (the row
\* that had IsHome before if there was one, otherwise a row of the user that
\* is flagged now), and it is empty if and only if the user has no row.
C17_TokenScopedToHome ==
    [][\A u \in DOMAIN user :
        SecondFactorDone(u) /\ resp'.err = NoError =>
            /\ resp'.jwt # NoJWT
            /\ resp'.jwt.UserUUID = u
            /\ resp'.jwt.OrganisationUUID = "" <=> OrgUsersOf(u) = {}
            /\ OrgUsersOf(u) # {} =>
                    \E n \in OrgUsersOf(u)' :
                        /\ n.IsHome
                        /\ n.OrganisationID = resp'.jwt.OrganisationUUID
            /\ (\E m \in OrgUsersOf(u) : m.IsHome) =>
                    \E m \in OrgUsersOf(u) :
                        m.IsHome /\ resp'.jwt.OrganisationUUID = m.OrganisationID
            /\ SessionKey(u, resp'.jwt.OrganisationUUID) \in DOMAIN redis'
            /\ redis'[SessionKey(u, resp'.jwt.OrganisationUUID)].val = resp'.jwt
    ]_vars

\* u1, whose home is the invitation to o2, signed in again and got a token
\* for o2
C17_Witness ==
    /\ resp.op = "verify_otp"
    /\ resp.in[1] = "u1"
    /\ resp.jwt # NoJWT
    /\ resp.prev # NoJWT
    /\ resp.jwt.OrganisationUUID = "o2"
    /\ \E m \in OrgUsersOf("u1") : m.IsHome /\ m.OrganisationID = "o2"

\* the failures of the second-factor sub-checks as the handlers record them:
\* MissingContact, CodeExpiredOrUnknown, CodeMismatch (verify_otp),
\* ChallengeExpiredOrUnknown, ChallengeVerificationFailed (FinishLogin)
SubCheckFailures ==
    {NewInvalidFieldError("type", "User doesn't have phone contact"),
     NewInvalidFieldError("type", "User doesn't have email contact"),
     NewRedisError("Get code failure"),
     SecureErrorResponse,
     NewRedisError("Get login session failure"),
     NewInternalServerError("Web Auth finish registration failed", "")}

\* C18: whichever of the sub-checks MissingContact, CodeExpiredOrUnknown,
\* CodeMismatch, ChallengeExpiredOrUnknown, ChallengeVerificationFailed
\* failed, the caller is sent the one generic "invalid code" answer.
C18_GenericInvalidCode ==
    /\ resp.op \in {"verify_otp", "finish_login"}
    /\ resp.err \in SubCheckFailures
    => resp.sent = SecureErrorResponse

\* C20: sign-in (by e-mail or by phone) and send_otp for an identifier that
\* matches no user are answered like a success (sign-in: no error and a
\* uuid, one that RandomUUID drew; send_otp: no error and no body) and
\* write nothing to redis or to the tables.
C20_UnknownIdentifierSilenced ==
    [][/\ (/\ ticks' = ticks
           /\ resp'.op = "signin"
           /\ resp'.in[1] # ""
           /\ UsersBy(resp'.in[1], resp'.in[2]) = {}
           => /\ resp'.sent = NoError
              /\ resp'.uuid \in RandomUUIDs
              /\ resp'.uuid \notin DOMAIN user
              /\ UNCHANGED <<redis, user, organisation_user>>)
       /\ (/\ ticks' = ticks
           /\ resp'.op = "send_otp"
           /\ resp'.err = NewUserDoesntExistError("User with provided uuid doesn't exist")
           => /\ resp'.sent = NoError
              /\ resp'.jwt = NoJWT
              /\ UNCHANGED <<redis, user, organisation_user>>)
    ]_vars

\* a sign-in with an unknown e-mail address was answered a random uuid
C20_Witness ==
    /\ resp.op = "signin"
    /\ resp.in = <<"email", ContactEmail(UnknownUUID)>>
    /\ resp.err = NewUserDoesntExistError("User lookup failed")
    /\ resp.sent = NoError
    /\ resp.uuid \in RandomUUIDs

\* C14: no operation of the core (sign-up, Send, Verify, Begin/Finish of the
\* public-key registration and login, the resolver they run, switch) turns
\* an invited membership into an active one: a membership that is invited
\* before a step is, if it is still there, invited and of the same role
\* after it.
C14_InvitationNeverActivated ==
    [][\A m \in organisation_user :
        m.Status = OrganisationUserStatusInvited =>
            \A n \in organisation_user' :
                n.ID = m.ID =>
                    /\ n.Status = OrganisationUserStatusInvited
                    /\ n.OrganisationRole = m.OrganisationRole
    ]_vars

\* u1 signed in (the resolver ran and activated the membership of o1) and
\* switched to o2, where the membership is still an invitation
C14_Witness ==
    /\ resp.op = "switch"
    /\ resp.err = NoError
    /\ resp.jwt # NoJWT
    /\ resp.jwt.OrganisationUUID = "o2"
    /\ \E m \in OrgUsersOf("u1") :
            m.OrganisationID = "o1" /\ m.Status = OrganisationUserStatusActive
    /\ \E m \in OrgUsersOf("u1") :
            m.OrganisationID = "o2" /\ m.Status = OrganisationUserStatusInvited

\* C19: a sign-up whose e-mail address belongs to a verified user is
\* answered like a successful sign-up (no error, a uuid) and has no side
\* effect: the tables user and organisation_user and redis are unchanged,
\* whether or not a reference key is supplied.
C19_VerifiedSignUpNoEffect ==
    [][/\ ticks' = ticks
       /\ resp'.op = "signup"
       /\ VerifiedByEmail(resp'.in[1]) # {}
       => /\ resp'.sent = NoError
          /\ resp'.uuid # ""
          /\ UNCHANGED <<user, organisation_user, redis>>
    ]_vars

\* the rows of user u that are flagged as home
HomesOf(u) == {m \in OrgUsersOf(u) : m.IsHome}

\* C16: in every reachable state, the states between the updates of a home
\* re-selection included, each user has at most one membership with is_home:
\* no sequence of sign-up, invitation, resolver and SetHomeOrganisation steps
\* (nor a SetHomeOrganisation that stops on a failed update) yields a user
\* with two home memberships.
C16_AtMostOneHome ==
    \A u \in DOMAIN user : Cardinality(HomesOf(u)) <= 1


\* C21: a request rejected by the middleware for a missing token, a malformed
\* token, an invalid signature or a revoked or unknown token is answered with
\* an error of the forbidden class, that is with HTTP status 403.
C21_ValidationFailuresAre403 ==
    (/\ resp.op = "request"
     /\ FailureKind(resp.err) \in {"MissingToken", "MalformedToken",
                                   "InvalidSignature", "RevokedOrUnknownToken"})
        => /\ resp.err.Type = ErrorTypeForbidden
           /\ resp.err.Code = 403

\* 31 days in seconds
ThirtyOneDays == 31 * 24 * 60 * 60

\* a successful Issue has signed a token that expires 31 days after its
\* issue and has stored it for 31 days
IssuedForThirtyOneDays ==
    (IssueSucceeded /\ resp.jwt.IssuedAt = now)
        => /\ resp.jwt.ExpiresAt = resp.jwt.IssuedAt + ThirtyOneDays
           /\ redis[SessionKey(resp.in[1], resp.in[2])]
                = [val |-> resp.jwt, expireAt |-> resp.jwt.IssuedAt + ThirtyOneDays]

\* a token older than 31 days is rejected
RejectedAfterThirtyOneDays ==
    \A t \in (HeldTokens \ {GarbageToken}) :
        now > t.IssuedAt + ThirtyOneDays => ~Validate(t).next

\* a token that validates and is younger than 31 days after a step still
\* validates after it, unless the step wrote or deleted its entry
KeepsValidating ==
    \A t \in (HeldTokens \ {GarbageToken}) :
        (/\ Validate(t).next
         /\ now' < t.IssuedAt + ThirtyOneDays
         /\ \/ ticks' # ticks
            \/ /\ SessionKey(t.UserUUID, t.OrganisationUUID) \in DOMAIN redis'
               /\ redis'[SessionKey(t.UserUUID, t.OrganisationUUID)]
                    = redis[SessionKey(t.UserUUID, t.OrganisationUUID)])
            => \E v \in {Validate(t)'} : v.next /\ v.tk = t

FinishOps == {"finish_registration", "finish_login"}
PurposeKey(op, u) ==
    GenerateRedisKey(u, IF op = "finish_registration" THEN KeyWebAuthnRegister
                        ELSE KeyWebAuthnLogin)
PurposeSession(op, u) ==
    IF op = "finish_registration" THEN RegisterSession(u) ELSE LoginSession(u)
ChallengeExpiredOrUnknown(op) ==
    IF op = "finish_registration" THEN NewRedisError("Get session failure")
    ELSE NewRedisError("Get login session failure")
ChallengeVerificationFailed ==
    NewInternalServerError("Web Auth finish registration failed", "")

\* the stored session of a purpose was written by the Begin of that purpose
\* less than 5 minutes ago
BegunWithinFiveMinutes(op, u) ==
    /\ PurposeKey(op, u) \in DOMAIN redis
    /\ redis[PurposeKey(op, u)].val = PurposeSession(op, u)
    /\ now < redis[PurposeKey(op, u)].expireAt
    /\ redis[PurposeKey(op, u)].expireAt <= now + CodeTTL

\* a Finish for the user u has just been answered
Finished(u) ==
    /\ ticks' = ticks
    /\ resp'.op \in FinishOps
    /\ resp'.in = <<u>>

\* C23: a Finish for user u succeeds only if the Begin of the same purpose
\* stored a session for u less than 5 minutes earlier. Without a stored
\* session of its purpose (none, an expired one, or one of the other purpose
\* only) it fails with ChallengeExpiredOrUnknown, with a failed protocol
\* check it fails with ChallengeVerificationFailed, and a Finish that fails
\* in either way stores no credential and issues no token.
C23_FinishNeedsOwnChallenge ==
    [][\A u \in ChallengeUserIDs \cap DOMAIN user :
        Finished(u) =>
            /\ resp'.err = NoError => BegunWithinFiveMinutes(resp'.op, u)
            /\ ~BegunWithinFiveMinutes(resp'.op, u)
                    => resp'.err = ChallengeExpiredOrUnknown(resp'.op)
            /\ (BegunWithinFiveMinutes(resp'.op, u) /\ resp'.err # NoError)
                    => resp'.err \in {ChallengeVerificationFailed,
                                      NewRedisError("Set token failure")}
            /\ resp'.err \in {ChallengeExpiredOrUnknown(resp'.op),
                              ChallengeVerificationFailed}
                    => /\ user' = user
                       /\ redis' = redis
                       /\ organisation_user' = organisation_user
                       /\ resp'.jwt = NoJWT]_vars

\* a FinishLogin was refused for want of a login session while the user's
\* registration session was in the store
C23_Witness ==
    /\ resp.op = "finish_login"
    /\ resp.in = <<"u2">>
    /\ resp.err = ChallengeExpiredOrUnknown("finish_login")
    /\ GenerateRedisKey("u2", KeyWebAuthnRegister) \in DOMAIN redis
    /\ GenerateRedisKey("u2", KeyWebAuthnLogin) \notin DOMAIN redis

\* the last answer was a successful Finish
FinishSucceeded == resp.op \in FinishOps /\ resp.err = NoError

\* C24: Finish consumes the challenge session. After a successful Finish for
\* user u the session of that purpose is no longer stored, and a second
\* Finish of the same purpose for u that follows without a new Begin fails
\* with ChallengeExpiredOrUnknown.
C24_FinishConsumesChallenge ==
    /\ [](FinishSucceeded => PurposeKey(resp.op, resp.in[1]) \notin DOMAIN redis)
    /\ [][(/\ FinishSucceeded
           /\ ticks' = ticks
           /\ resp'.op = resp.op
           /\ resp'.in = resp.in)
            => resp'.err = ChallengeExpiredOrUnknown(resp.op)]_vars

\* C25: a successful FinishRegistration for user u stores the credential on
\* u's user record and changes nothing else of the directory; a failed one
\* leaves the user records unchanged; and a verify_otp that succeeds for a
\* user with a stored credential answers with a public-key login challenge,
\* stored for the user, and with no token.
C25_RegistrationStoresCredential ==
    [][/\ (ticks' = ticks /\ resp'.op = "finish_registration")
            => /\ organisation_user' = organisation_user
               /\ IF resp'.err = NoError
                  THEN /\ resp'.in[1] \in DOMAIN user
                       /\ user' = [user EXCEPT ![resp'.in[1]].LoginWebAuthn = "credential"]
                       /\ user'[resp'.in[1]].LoginWebAuthn # ""
                  ELSE user' = user
       /\ \A u \in DOMAIN user :
            (/\ user[u].LoginWebAuthn # ""
             /\ Succeeds("verify_otp", u))
                => /\ resp'.jwt = NoJWT
                   /\ SessionKeysOf(u) \cap DOMAIN redis' = SessionKeysOf(u) \cap DOMAIN redis
                   /\ \A k \in SessionKeysOf(u) \cap DOMAIN redis : redis'[k] = redis[k]
                   /\ ChallengeKey(u) \in DOMAIN redis'
                   /\ redis'[ChallengeKey(u)]
                        = [val |-> LoginSession(u), expireAt |-> now + CodeTTL]
       /\ \A u \in DOMAIN user \cap DOMAIN user' :
            user[u].LoginWebAuthn # "" => user'[u].LoginWebAuthn # ""]_vars

\* the user sign-up created has finished the registration and was then
\* answered by verify_otp with a login challenge
C25_Witness ==
    /\ "u4" \in DOMAIN user
    /\ user["u4"].LoginWebAuthn = "credential"
    /\ resp.op = "verify_otp"
    /\ resp.in = <<"u4", "phone">>
    /\ resp.err = NoError
    /\ resp.jwt = NoJWT
    /\ ChallengeKey("u4") \in DOMAIN redis

\* MissingContact: the errors of send_otp and verify_otp for a user without
\* a contact of the channel
MissingContact ==
    {NewInvalidFieldError("type", "User doesn't have phone contact"),
     NewInvalidFieldError("type", "User doesn't have email"),
     NewInvalidFieldError("type", "User doesn't have email contact")}

\* the user has a login contact of the channel
HasContact(u, type) ==
    IF type = "phone" THEN user[u].LoginPhone ELSE user[u].LoginEmail

\* the step is a request, not the clock and not a delivery
RequestStep ==
    /\ ticks' = ticks
    /\ \A p \in Procs : pc[p] = "deliver" => pc'[p] = "deliver"

\* C26: send_otp and verify_otp for a user who has no contact of the channel
\* fail with MissingContact, whatever the code and whatever the provider
\* would say; a request that fails so writes nothing to the store, starts
\* no delivery and issues no token.
C26_MissingContact ==
    /\ [](\A rq \in OtpRequests :
            (/\ TrimSpace(rq[1]) \in DOMAIN user
             /\ ~HasContact(TrimSpace(rq[1]), rq[2]))
                => /\ SendCheck(rq[1], rq[2]) \in MissingContact
                   /\ \A code \in Codes \cup {""}, twilioOK \in BOOLEAN :
                        VerifyCheck(rq[1], rq[2], code, twilioOK) \in MissingContact)
    /\ [][(/\ RequestStep
           /\ resp'.op \in {"send_otp", "verify_otp"}
           /\ resp'.err \in MissingContact)
            => /\ redis' = redis
               /\ pc' = pc
               /\ call' = call
               /\ user' = user
               /\ organisation_user' = organisation_user
               /\ resp'.sent = resp'.err
               /\ resp'.jwt = NoJWT]_vars

\* send_otp by e-mail for u3, who has a phone contact only, was refused; no
\* code of u3 is stored and no delivery to u3 was started
C26_Witness ==
    /\ resp.op = "send_otp"
    /\ resp.err = NewInvalidFieldError("type", "User doesn't have email")
    /\ GenerateRedisKey("u3", KeySignUp) \notin DOMAIN redis
    /\ \A p \in Procs : call[p] # NoCall => call[p].to # ContactEmail("u3")

\* the ids under which requests name the user u
NamesOf(u) == {rq[1] : rq \in {x \in OtpRequests : TrimSpace(x[1]) = u}}

\* the store keys that hold a pending e-mail code of user u
PendingCodes(u) ==
    {GenerateRedisKey(n, KeySignUp) : n \in NamesOf(u)} \cap DOMAIN redis

\* the delivery process p was started by the step, for the e-mail of user u
SentByEmail(p, u) ==
    /\ ticks' = ticks
    /\ resp'.op = "send_otp"
    /\ resp'.err = NoError
    /\ pc[p] = "idle"
    /\ pc'[p] = "deliver"
    /\ call'[p].type = "email"
    /\ call'[p].to = ContactEmail(u)

DeliveryStep == \E p \in Procs : pc[p] = "deliver" /\ pc'[p] # "deliver"

\* C28: send_otp by e-mail answers success once the code is stored, while
\* its delivery is still pending; a delivery that ends, sent or failed,
\* changes neither the answer nor the store nor the directory; and in every
\* state, whatever the deliveries have done, the check of verify_otp accepts
\* the code that is stored for the id.
C28_SendDoesNotWaitForDelivery ==
    /\ [](\A rq \in OtpRequests, code \in Codes :
            (/\ rq[2] = "email"
             /\ GenerateRedisKey(rq[1], KeySignUp) \in DOMAIN redis
             /\ redis[GenerateRedisKey(rq[1], KeySignUp)].val = CodeValue(code))
                => VerifyCheck(rq[1], "email", code, TRUE) = NoError)
    /\ [][/\ \A p \in Procs, u \in DOMAIN user :
                SentByEmail(p, u)
                    => /\ resp'.sent = NoError
                       /\ call'[p].delivered = "pending"
                       /\ \E k \in PendingCodes(u)' : redis'[k].val = call'[p].code
          /\ DeliveryStep
                => /\ resp' = resp
                   /\ redis' = redis
                   /\ user' = user
                   /\ organisation_user' = organisation_user]_vars

\* verify_otp by e-mail has answered u1 with a token although the delivery
\* of the stored code has failed and no other delivery is pending
C28_Witness ==
    /\ resp.op = "verify_otp"
    /\ resp.in = <<"u1", "email">>
    /\ resp.err = NoError
    /\ resp.jwt # NoJWT
    /\ \E p \in Procs :
        /\ call[p] # NoCall
        /\ call[p].delivered = "failed"
        /\ call[p].code = redis[GenerateRedisKey("u1", KeySignUp)].val
    /\ \A p \in Procs : pc[p] = "idle" /\ (call[p] # NoCall => call[p].delivered = "failed")

\* C29: a user without any membership who completes the verification is
\* answered with a token that names no organisation and that validates; and
\* GetInfo called with a token that names no organisation succeeds for an
\* existing user and answers an empty organisation id and an empty
\* organisation role, whatever memberships the directory holds.
C29_InfoWithoutOrganisation ==
    [][/\ \A u \in DOMAIN user :
            (OrgUsersOf(u) = {} /\ Succeeds("verify_otp", u))
                => /\ resp'.jwt # NoJWT
                   /\ resp'.jwt.UserUUID = u
                   /\ resp'.jwt.OrganisationUUID = ""
                   /\ \E t \in {resp'.jwt} :
                        Validate(t)'.next /\ Validate(t)'.tk = t
       /\ (/\ ticks' = ticks
           /\ resp'.op = "info"
           /\ resp'.next
           /\ resp'.tk.OrganisationUUID = ""
           /\ resp'.tk.UserUUID \in DOMAIN user)
            => /\ resp'.err = NoError
               /\ resp'.info.UserUUID = resp'.tk.UserUUID
               /\ resp'.info.OrganisationUUID = ""
               /\ resp'.info.OrganisationRole = ""
               /\ UNCHANGED <<redis, user, organisation_user>>]_vars

\* the user who signed up without a reference key has verified and has
\* called GetInfo with the token: the answer names no organisation
C29_Witness ==
    /\ resp.op = "info"
    /\ resp.err = NoError
    /\ resp.tk.UserUUID = "u4"
    /\ OrgUsersOf("u4") = {}
    /\ resp.info.OrganisationUUID = ""
    /\ resp.info.OrganisationRole = ""

\* a step of sign-up
SignUpStep == ticks' = ticks /\ resp'.op = "signup"

\* the users the sign-up of the step found abandoned: the unverified users
\* who held the e-mail address while no verified user held it
Abandoned ==
    IF resp'.err = NoError /\ VerifiedByEmail(resp'.in[1]) = {}
    THEN UnverifiedByEmail(resp'.in[1])
    ELSE {}

\* no step deletes a verified user or makes a verified user unverified
KeepsVerified ==
    \A u \in DOMAIN user :
        user[u].Status = UserStatusVerified
            => u \in DOMAIN user' /\ user'[u].Status = UserStatusVerified

\* sign-up deletes the abandoned users and no other user, changes no user
\* who stays, and creates one unverified user when no verified user holds
\* the address
CleanupUsers ==
    SignUpStep =>
        /\ DOMAIN user \ DOMAIN user' = Abandoned
        /\ \A u \in DOMAIN user \cap DOMAIN user' : user'[u] = user[u]
        /\ IF resp'.err = NoError /\ VerifiedByEmail(resp'.in[1]) = {}
           THEN /\ Cardinality(DOMAIN user' \ DOMAIN user) = 1
                /\ \A n \in DOMAIN user' \ DOMAIN user :
                        user'[n].Status = UserStatusUnverified
           ELSE DOMAIN user' \ DOMAIN user = {}

\* sign-up deletes the memberships of the abandoned users and no other
CleanupMemberships ==
    SignUpStep =>
        organisation_user \ organisation_user'
            = {m \in organisation_user : m.UserID \in Abandoned}

\* sign-up deletes the contacts of the abandoned users and no other
CleanupContacts ==
    SignUpStep =>
        contact \ contact'
            = {c \in contact : \E u \in Abandoned :
                                    c.ID \in {LoginEmailUUID(u), LoginPhoneUUID(u)}}

\* the cleanup of the users and of the memberships, the contacts left aside
SignUpCleanupOfUsersAndMemberships ==
    [][KeepsVerified /\ CleanupUsers /\ CleanupMemberships]_vars

\* C30: sign-up cleanup deletes only abandoned unverified users. When the
\* e-mail address of a sign-up is held by unverified users only, exactly
\* those users, their contacts and all their memberships are deleted and
\* one new unverified user is created; sign-up deletes no verified user and
\* no membership of a verified user, and no step makes a verified user
\* unverified.
C30_SignUpCleanup ==
    [][KeepsVerified /\ CleanupUsers /\ CleanupMemberships /\ CleanupContacts]_vars

\* the activity type under which the handler of an operation records
OpActivityType(op) ==
    CASE op = "signup" -> ActivityTypeSignUp
      [] op = "signin" -> ActivityTypeSignIn
      [] op = "send_otp" -> ActivityTypeSendOtp
      [] op = "verify_otp" -> ActivityTypeVerifyOtp
      [] op \in {"finish_registration", "finish_login"} -> ActivityTypeSignUpWebAuth
      [] op = "switch" -> ActivityTypeSwitchOrganisation
      [] OTHER -> ActivityTypeUserInfo

\* the user a response was made for: the user of the validated token, the
\* user a sign-in issued a token for, or else the unknown user
ActingUser(r) ==
    IF r.tk # NoJWT THEN r.tk.UserUUID
    ELSE IF r.jwt # NoJWT THEN r.jwt.UserUUID
    ELSE UnknownUser

\* the response is a sign-in that succeeded with a token
SignedIn(r) == r.op \in {"verify_otp", "finish_login"} /\ r.jwt # NoJWT

\* the rows of the step record its outcome: one row of the handler's type
\* with the acting user, the recorded error and the caller's address, and
\* before it one session row when the step is a successful sign-in
OutcomeRecorded ==
    /\ Len(user_activity') = IF SignedIn(resp') THEN 2 ELSE 1
    /\ \A i \in 1..Len(user_activity') :
        /\ user_activity'[i].UserID = ActingUser(resp')
        /\ user_activity'[i].RemoteAddr = RemoteAddr
        /\ user_activity'[i].Info = resp'.err
    /\ user_activity'[Len(user_activity')].Type = OpActivityType(resp'.op)
    /\ SignedIn(resp') => user_activity'[1].Type = ActivityTypeSessionLength

\* every outcome of a handler that ran is recorded
HandlerOutcomesRecorded ==
    [][(ticks' = ticks /\ resp'.next) => OutcomeRecorded]_vars

\* C31: every auth-relevant outcome, success or failure, of sign-up,
\* sign-in, send_otp, verify_otp, a public-key Finish, switch, GetInfo and of
\* a rejected token validation is recorded as exactly one activity row with
\* the id of the acting user, or of the unknown user when the request is
\* unauthenticated, and with the caller's address; a successful sign-in
\* opens one session row in addition.
C31_OutcomesRecorded ==
    [][ticks' = ticks => OutcomeRecorded]_vars


\* the answers that reject the second factor: the request did not pass the
\* checks of the type, the contact, the code or the public-key assertion
SecondFactorRejected(r) ==
    /\ r.op \in {"verify_otp", "finish_login"}
    /\ r.err # NoError
    /\ r.err # NewRedisError("Set token failure")
    /\ r.err # NewRedisError("Set web authn failure")

\* the status of every user
UserStatuses == [u \in DOMAIN user |-> user[u].Status]

\* a rejected second factor leaves every user's status as it was
RejectedKeepsUserStatus ==
    [][(ticks' = ticks /\ SecondFactorRejected(resp')) => UserStatuses' = UserStatuses]_vars

\* C32: a verify_otp or public-key Finish request that fails changes no
\* membership (status, role, is_home) and no user status, in every form of
\* VerifyCodeHandler
C32_RejectedChangesNothing ==
    [][(ticks' = ticks /\ SecondFactorRejected(resp'))
        => /\ organisation_user' = organisation_user
           /\ UserStatuses' = UserStatuses]_vars


\* the user of token t has an active membership in the organisation of t
ActiveMember(t) ==
    \E m \in organisation_user :
        /\ m.UserID = t.UserUUID
        /\ m.OrganisationID = t.OrganisationUUID
        /\ m.Status = OrganisationUserStatusActive

\* the registered tokens that validate, name an organisation and belong to
\* a user who is no platform admin
ScopedTokens ==
    {t \in StoredTokens :
        /\ Validate(t).next
        /\ t.OrganisationUUID # ""
        /\ UserExists(t.UserUUID)
        /\ user[t.UserUUID].Role # UserRoleAdmin}

\* C33: a user who is no platform admin never holds a valid token scoped to
\* an organisation in which the user's membership is not active
C33_TokensOfActiveMembers == \A t \in ScopedTokens : ActiveMember(t)


\* C34: under any interleaving of resolver runs for different users of an
\* organisation without an active admin, at most one membership of the
\* organisation ends with role admin and status active
C34_OneAdmin ==
    (\A p \in Procs : pc[p] = "idle")
        => \A o \in OrganisationIDs : Cardinality(ActiveAdmins(organisation_user, o)) <= 1


\* the registered tokens that validate
ValidTokens == {t \in StoredTokens : Validate(t).next}

\* the switch of process p deletes the previous entry
Revokes(p) == pc[p] = "del" /\ pc'[p] = "idle" /\ resp'.err = NoError

\* the valid tokens of the pair the switch of p leaves, other than the token
\* the switch was asked with
NewerTokens(p) ==
    {t \in ValidTokens :
        /\ t.UserUUID = call[p].auth.tk.UserUUID
        /\ t.OrganisationUUID = call[p].auth.tk.OrganisationUUID
        /\ t # call[p].auth.tk}

\* C35: the revocation done by a switch invalidates only the token of the
\* switching session: a newer token of the same pair, issued while the
\* switch was served, is still valid after the switch has completed
C35_RevokesOwnTokenOnly ==
    [][\A p \in Procs : Revokes(p) => NewerTokens(p) \subseteq ValidTokens']_vars


\* a switch that passed the middleware keeps the valid tokens when it
\* answers an error before or at the Set of the new token
SwitchErrorBeforeSetKeepsTokens ==
    [][(/\ ticks' = ticks
        /\ resp'.op = "switch"
        /\ resp'.err # NoError
        /\ resp'.err # NewRedisError("Del token failure"))
        => ValidTokens' = ValidTokens]_vars

\* C36: a switch that answers with an error leaves the set of valid tokens
\* as it was before the call
C36_SwitchAllOrNothing ==
    [][(ticks' = ticks /\ resp'.op = "switch" /\ resp'.err # NoError)
        => ValidTokens' = ValidTokens]_vars


\* the answer r is that of a switch to the organisation its token names
SameOrganisationSwitch(r) ==
    /\ r.op = "switch"
    /\ r.next
    /\ r.in = <<r.tk.OrganisationUUID>>

\* C37: a switch to the organisation the presented token is already scoped
\* to answers that same token and leaves the store unchanged, so that the
\* token still validates afterwards
C37_SameOrganisationSwitch ==
    [][(ticks' = ticks /\ SameOrganisationSwitch(resp'))
        => /\ resp'.err = NoError
           /\ resp'.jwt = resp'.tk
           /\ redis' = redis
           /\ \E t \in {resp'.jwt} : Validate(t)'.next]_vars

\* a switch to the token's own organisation has answered the token, which
\* validates
C37_Witness ==
    /\ SameOrganisationSwitch(resp)
    /\ resp.err = NoError
    /\ resp.jwt = resp.tk
    /\ resp.jwt \in ValidTokens


\* the valid tokens of the pair <<user, organisation>>
ValidTokensOf(pair) ==
    {t \in ValidTokens : t.UserUUID = pair[1] /\ t.OrganisationUUID = pair[2]}

\* after a Delete that returns no error no token of the pair validates
DeleteRevokes ==
    [][(ticks' = ticks /\ resp'.op = "Delete" /\ resp'.err = NoError)
        => \E pair \in {resp'.in} : ValidTokensOf(pair)' = {}]_vars

\* C38: after OrganisationUser.Delete for (u, o) returns success no token of
\* (u, o) validates, and when it returns an error the token of (u, o) that
\* was valid before is still valid
C38_DeleteRevokes ==
    [][(ticks' = ticks /\ resp'.op = "Delete")
        => \E pair \in {resp'.in} :
            IF resp'.err = NoError
            THEN ValidTokensOf(pair)' = {}
            ELSE ValidTokensOf(pair) \subseteq ValidTokensOf(pair)']_vars


\* C39: every session entry of the store is kept under the key of its pair
\* and belongs to a user who exists and is verified
C39_SessionsOfVerifiedUsers ==
    \A k \in DOMAIN redis :
        "UserUUID" \in DOMAIN redis[k].val =>
            /\ k = SessionKey(redis[k].val.UserUUID, redis[k].val.OrganisationUUID)
            /\ redis[k].val.UserUUID \in DOMAIN user
            /\ user[redis[k].val.UserUUID].Status = UserStatusVerified

\* u1 and a user created by sign-up hold a session while the user who had
\* signed up with the address before has been removed
C39_Witness ==
    /\ \E t \in StoredTokens : t.UserUUID = "u1"
    /\ \E t \in StoredTokens : t.UserUUID \in NewUserIDs
    /\ \E u \in NewUserIDs :
            /\ u \notin DOMAIN user
            /\ [ID |-> LoginPhoneUUID(u), Type |-> "phone"] \in contact


\* the answer r is that of a verify_otp for a user id that matches no user
UnknownUserVerify(r) ==
    /\ r.op = "verify_otp"
    /\ ~UserExists(r.in[1])

\* verify_otp for an unknown user id issues no token and writes nothing
UnknownUserVerifyWritesNothing ==
    [][(ticks' = ticks /\ UnknownUserVerify(resp'))
        => /\ resp'.jwt = NoJWT
           /\ resp'.err # NoError
           /\ UNCHANGED <<redis, user, organisation_user, contact>>]_vars

\* C40: verify_otp for a user id that matches no user is answered with the
\* generic "invalid code" response of a wrong code, issues no token and
\* writes nothing
C40_UnknownUserInvalidCode ==
    [][(ticks' = ticks /\ UnknownUserVerify(resp'))
        => /\ resp'.sent = SecureErrorResponse
           /\ resp'.jwt = NoJWT
           /\ UNCHANGED <<redis, user, organisation_user, contact>>]_vars

====
